---- MODULE Spec2Model ----
(***************************************************************************)
(* Telemetry pipeline of track-patient: the RX monitor callback of         *)
(* BLEContext.tsx (stream reassembly), the packet parser (packetParser,    *)
(* found in BLEDataLogs.tsx) and the PatientsProvider effects of           *)
(* PatientsContext.tsx (decode, merge, registry).                          *)
(*                                                                         *)
(* Text is a TLA+ string (a sequence of characters: Len, \o and SubSeq     *)
(* apply to it).  Indices in the operators that carry a JavaScript name    *)
(* are 0-based, as in the source.                                          *)
(***************************************************************************)
EXTENDS Integers, Sequences, FiniteSets, TLC

VARIABLES
  dataBufferRef,     \* BLEContext: dataBufferRef.current
  receivedData,      \* BLEContext: receivedData (React state)
  connectedDevice,   \* BLEContext: connectedDevice (React state), "null" or a device
  linkUp,            \* the BLE link to the peripheral exists
  monitors,          \* number of rxChar.monitor subscriptions made and never removed
  isProductionMode,  \* AppModeContext: mode === 'production'
  blePatients,       \* PatientsContext: blePatients (Map patientKey -> Patient)
  dataDeps,          \* dependency values seen by the last run of the data effect
  connDeps,          \* dependency values seen by the last run of the connection effect
  now,               \* the clock read by Date.now() / new Date()
  delivered,         \* system specifications: RX notifications handled so far
  toggles,           \* system specifications: mode switches made so far
  pending,           \* feed specification: text not yet delivered
  feedText,          \* feed specification: the whole text being delivered
  emitted,           \* history: messages passed to setReceivedData, in order
  decoded,           \* history: messages the data effect passed to parseBLEData since
                     \* connectedDevice was last set to a device, in order
  overflows,         \* history: number of 'Data buffer overflow, resetting' reports
  server,            \* esp32_ble_server.ino: the sketch's globals, the link and loop()'s position
  connectCall,       \* BLEContext: isConnecting (React state) and the position of the
                     \* connectToDevice invocation in progress
  sending,           \* esp32_ble_server.ino: the locals of the sendPacket call in progress
                     \* and the chunks it has notified
  lastOp             \* history: what the last step did

vars == <<dataBufferRef, receivedData, connectedDevice, linkUp, monitors,
          isProductionMode, blePatients, dataDeps, connDeps, now,
          delivered, toggles, pending, feedText, emitted, decoded, overflows,
          server, connectCall, sending, lastOp>>

----------------------------------------------------------------------------
(* JavaScript string primitives                                            *)

Whitespace == {" ", "\t", "\n", "\r"}

\* the character at 1-based position i of a string
ch(s, i) == SubSeq(s, i, i)

MinOf(a, b) == IF a <= b THEN a ELSE b

MaxOf(a, b) == IF a >= b THEN a ELSE b

\* String.prototype.substring(a, b): both ends clamped to [0, length], swapped if a > b
substring(s, a, b) ==
  LET ca == MinOf(MaxOf(a, 0), Len(s))
      cb == MinOf(MaxOf(b, 0), Len(s))
  IN  SubSeq(s, MinOf(ca, cb) + 1, MaxOf(ca, cb))

\* String.prototype.substring(a)
substringFrom(s, a) == substring(s, a, Len(s))

\* s[i]: the character at 0-based i, undefined outside the string
charAt(s, i) == IF i >= 0 /\ i < Len(s) THEN ch(s, i + 1) ELSE "undefined"

\* String.prototype.indexOf(c) for a single character c
indexOf(s, c) ==
  IF \E i \in 1..Len(s) : ch(s, i) = c
  THEN (CHOOSE i \in 1..Len(s) : ch(s, i) = c /\ \A j \in 1..(i - 1) : ch(s, j) # c) - 1
  ELSE -1

\* String.prototype.includes(c) for a single character c
includes(s, c) == \E i \in 1..Len(s) : ch(s, i) = c

\* String.prototype.indexOf('DD')
indexOfDD(s) ==
  IF \E i \in 1..(Len(s) - 1) : ch(s, i) = "D" /\ ch(s, i + 1) = "D"
  THEN (CHOOSE i \in 1..(Len(s) - 1) :
          /\ ch(s, i) = "D" /\ ch(s, i + 1) = "D"
          /\ \A j \in 1..(i - 1) : ~(ch(s, j) = "D" /\ ch(s, j + 1) = "D")) - 1
  ELSE -1

\* String.prototype.startsWith(c) for a single character c
startsWith(s, c) == Len(s) > 0 /\ ch(s, 1) = c

\* String.prototype.endsWith(c) for a single character c
endsWith(s, c) == Len(s) > 0 /\ ch(s, Len(s)) = c

\* String.prototype.trim()
trim(s) ==
  IF \A i \in 1..Len(s) : ch(s, i) \in Whitespace THEN ""
  ELSE LET first == CHOOSE i \in 1..Len(s) :
                      ch(s, i) \notin Whitespace /\ \A j \in 1..(i - 1) : ch(s, j) \in Whitespace
           last  == CHOOSE i \in 1..Len(s) :
                      ch(s, i) \notin Whitespace /\ \A j \in (i + 1)..Len(s) : ch(s, j) \in Whitespace
       IN  SubSeq(s, first, last)

----------------------------------------------------------------------------
(* BLEContext.tsx: the rxChar.monitor callback                             *)

JsonScanMinLength == 50

DuplicateChunkLength == 20

MaxBufferLength == 10000

\* 0-based index of the first brace at or after 0-based i, -1 if there is none
nextBrace(s, i) ==
  IF \E j \in (i + 1)..Len(s) : ch(s, j) \in {"{", "}"}
  THEN (CHOOSE j \in (i + 1)..Len(s) :
          ch(s, j) \in {"{", "}"} /\ \A k \in (i + 1)..(j - 1) : ch(s, k) \notin {"{", "}"}) - 1
  ELSE -1

\* The brace-counting for loop (lines 1155-1204), resumed at 0-based index i with
\* the loop's locals; characters other than braces leave the locals unchanged.
\* Result: jsonStart and jsonEnd of the first complete object, jsonEnd = -1 if none.
RECURSIVE braceScan(_, _, _, _)
braceScan(s, i, braceCount, jsonStart) ==
  LET p == nextBrace(s, i)
  IN  IF p = -1 THEN [jsonStart |-> jsonStart, jsonEnd |-> -1]
      ELSE IF ch(s, p + 1) = "{"
           THEN braceScan(s, p + 1, braceCount + 1,
                          IF braceCount = 0 THEN p ELSE jsonStart)
           ELSE IF braceCount - 1 = 0 /\ jsonStart # -1
                THEN [jsonStart |-> jsonStart, jsonEnd |-> p]
                ELSE braceScan(s, p + 1, braceCount - 1, jsonStart)

\* Lines 1135-1151: the duplicate-chunk guard
duplicateGuard(workingBuffer) ==
  LET first20  == substring(workingBuffer, 0, DuplicateChunkLength)
      second20 == substring(workingBuffer, DuplicateChunkLength, 2 * DuplicateChunkLength)
  IN  IF first20 = second20 /\ Len(workingBuffer) >= 2 * DuplicateChunkLength
      THEN first20
      ELSE workingBuffer

\* Lines 1133-1205: the block run when the buffer is long and holds no newline.
\* Result: the working buffer and the messages passed to setReceivedData.
jsonBlock(workingBuffer) ==
  IF Len(workingBuffer) > JsonScanMinLength /\ ~includes(workingBuffer, "\n")
  THEN LET wb   == duplicateGuard(workingBuffer)
           scan == braceScan(wb, 0, 0, -1)
       IN  IF scan.jsonEnd # -1
           THEN LET completeMessage == trim(substring(wb, scan.jsonStart, scan.jsonEnd + 1))
                IN  [buffer   |-> substringFrom(wb, scan.jsonEnd + 1),
                     messages |-> IF Len(completeMessage) > 0
                                  THEN <<completeMessage>> ELSE <<>>]
           ELSE [buffer |-> wb, messages |-> <<>>]
  ELSE [buffer |-> workingBuffer, messages |-> <<>>]

\* Variant of the overflow guard that reports and keeps the buffer
overflowGuardKeeps(w) ==
  [buffer |-> w.buffer, messages |-> w.messages,
   overflow |-> IF Len(w.buffer) > MaxBufferLength THEN 1 ELSE 0]

\* Variant of the overflow guard that clears the buffer and reports nothing
overflowGuardSilent(w) ==
  [buffer |-> IF Len(w.buffer) > MaxBufferLength THEN "" ELSE w.buffer,
   messages |-> w.messages, overflow |-> 0]

\* Lines 1207-1215: the overflow guard, on the working buffer and messages that
\* jsonBlock leaves.  Result: these and the number of overflow reports.
overflowGuard(w) ==
  IF Len(w.buffer) > MaxBufferLength
  THEN [buffer |-> "", messages |-> w.messages, overflow |-> 1]
  ELSE [buffer |-> w.buffer, messages |-> w.messages, overflow |-> 0]

\* Lines 1269-1276: Live packet, L...DD at the end of the buffer or before a newline
livePacketEnd(workingBuffer) ==
  IF startsWith(workingBuffer, "L") /\ indexOfDD(workingBuffer) # -1
  THEN LET ddIndex == indexOfDD(workingBuffer)
       IN  IF ddIndex > 0 /\ (ddIndex + 2 = Len(workingBuffer)
                              \/ charAt(workingBuffer, ddIndex + 2) = "\n")
           THEN ddIndex + 2
           ELSE 0
  ELSE 0

\* Lines 1281-1290: the last 'D' whose previous character is not 'D', -1 if none
lastSingleD(workingBuffer) ==
  LET isHit(i) == /\ ch(workingBuffer, i + 1) = "D"
                  /\ (i = 0 \/ ch(workingBuffer, i) # "D")
      hits == {i \in 0..(Len(workingBuffer) - 1) : isHit(i)}
  IN  IF hits = {} THEN -1
      ELSE CHOOSE i \in hits : \A j \in hits : j <= i

\* Lines 1267-1294: the length of completePacket, 0 when completePacket is null
completePacketLength(workingBuffer) ==
  LET liveEnd == livePacketEnd(workingBuffer)
  IN  IF liveEnd > 0 THEN liveEnd
      ELSE IF startsWith(workingBuffer, "T") \/ startsWith(workingBuffer, "S")
           THEN LET lastDIndex == lastSingleD(workingBuffer)
                IN  IF lastDIndex > 0 THEN lastDIndex + 1 ELSE 0
           ELSE 0

\* Lines 1219-1320: the while (processed) loop, on the working buffer, the
\* messages passed to setReceivedData so far and the overflow reports.
\* Result: the same with the remaining working buffer and all messages.
RECURSIVE extractLoop(_)
extractLoop(w) ==
  LET newlineIndex == indexOf(w.buffer, "\n")
      completeMessage == trim(substring(w.buffer, 0, newlineIndex))
      afterLine == IF newlineIndex # -1
                   THEN substringFrom(w.buffer, newlineIndex + 1)
                   ELSE w.buffer
      packetLength == completePacketLength(afterLine)
  IN  IF newlineIndex # -1 /\ Len(completeMessage) > 0
      THEN extractLoop([w EXCEPT !.buffer = afterLine,
                                 !.messages = Append(@, completeMessage)])
      ELSE IF packetLength > 0
           THEN extractLoop([w EXCEPT
                               !.buffer = substringFrom(afterLine, packetLength),
                               !.messages = Append(@, substring(afterLine, 0,
                                                                packetLength))])
           ELSE [w EXCEPT !.buffer = afterLine]

\* Lines 1086-1343: one invocation of the monitor callback on the stored buffer and
\* a decoded chunk.  Result: the buffer stored at line 1338, the messages passed to
\* setReceivedData in call order, and the number of overflow reports.
monitorCallback(storedBuffer, decodedString) ==
  extractLoop(overflowGuard(jsonBlock(storedBuffer \o decodedString)))

----------------------------------------------------------------------------
(* JavaScript number primitives.  Numbers are integers in a fixed unit per  *)
(* field; NaN is a value of its own.                                        *)

\* the result of parseInt / parseFloat on text without a leading number
NaN == -999999999

Digits == {"0", "1", "2", "3", "4", "5", "6", "7", "8", "9"}

DigitValue(c) ==
  CASE c = "0" -> 0 [] c = "1" -> 1 [] c = "2" -> 2 [] c = "3" -> 3 [] c = "4" -> 4
    [] c = "5" -> 5 [] c = "6" -> 6 [] c = "7" -> 7 [] c = "8" -> 8 [] c = "9" -> 9

\* the number of leading characters of s that are digits
leadingDigits(s) ==
  IF \A i \in 1..Len(s) : ch(s, i) \in Digits THEN Len(s)
  ELSE (CHOOSE i \in 1..Len(s) :
          ch(s, i) \notin Digits /\ \A j \in 1..(i - 1) : ch(s, j) \in Digits) - 1

\* the value of a string of digits
RECURSIVE digitsValue(_)
digitsValue(s) ==
  IF s = "" THEN 0
  ELSE 10 * digitsValue(SubSeq(s, 1, Len(s) - 1)) + DigitValue(ch(s, Len(s)))

\* 10 to the power n
RECURSIVE pow10(_)
pow10(n) == IF n = 0 THEN 1 ELSE 10 * pow10(n - 1)

\* parseInt(s, 10) on text without sign or leading blanks
parseInt(s) ==
  LET n == leadingDigits(s)
  IN  IF n = 0 THEN NaN ELSE digitsValue(SubSeq(s, 1, n))

\* parseFloat(s) on text without sign, exponent or leading blanks, in units of
\* 10^-places (further decimals are cut)
parseFloat(s, places) ==
  LET n        == leadingDigits(s)
      hasPoint == charAt(s, n) = "."
      rest     == substringFrom(s, n + 1)
      m        == IF hasPoint THEN MinOf(leadingDigits(rest), places) ELSE 0
  IN  IF n = 0 /\ (~hasPoint \/ leadingDigits(rest) = 0) THEN NaN
      ELSE digitsValue(SubSeq(s, 1, n)) * pow10(places)
           + digitsValue(SubSeq(rest, 1, m)) * pow10(places - m)

\* x / d on a number in some unit, the result in the same unit
divide(x, d) == IF x = NaN THEN NaN ELSE x \div d

\* x * k on a number in some unit
times(x, k) == IF x = NaN THEN NaN ELSE x * k

----------------------------------------------------------------------------
(* packetParser (BLEDataLogs.tsx lines 336-987)                            *)

\* the units of the decimal-degree coordinates: 1/LatUnit and 1/LonUnit degrees
LatUnit == 6000000

LonUnit == 600000

allDigits(s) == \A i \in 1..Len(s) : ch(s, i) \in Digits

\* 1-based start of the leftmost match of \d{a}\d{2}\.\d{f}[dirs] in s (dirs = {}
\* for a pattern without direction letter), 0 if there is none
coordinateMatch(s, a, f, dirs) ==
  LET width == a + 2 + 1 + f + (IF dirs = {} THEN 0 ELSE 1)
      matchesAt(i) ==
        /\ allDigits(SubSeq(s, i, i + a + 1))
        /\ ch(s, i + a + 2) = "."
        /\ allDigits(SubSeq(s, i + a + 3, i + a + 2 + f))
        /\ (dirs = {} \/ ch(s, i + a + 3 + f) \in dirs)
      starts == {i \in 1..(Len(s) - width + 1) : matchesAt(i)}
  IN  IF starts = {} THEN 0 ELSE CHOOSE i \in starts : \A j \in starts : i <= j

\* degrees + minutes / 60 of the match at i, in 1/unit degrees, signed by the
\* direction letter when the pattern has one
coordinateValue(s, i, a, f, dirs, negative, unit) ==
  LET degrees  == digitsValue(SubSeq(s, i, i + a - 1))
      minInt   == digitsValue(SubSeq(s, i + a, i + a + 1))
      minFrac  == digitsValue(SubSeq(s, i + a + 3, i + a + 2 + f))
      perMin   == unit \div 60
      value    == degrees * unit + minInt * perMin + minFrac * (perMin \div pow10(f))
  IN  IF dirs # {} /\ ch(s, i + a + 3 + f) = negative THEN 0 - value ELSE value

\* Lines 417-445
parseLatitude(latStr) ==
  LET m5 == coordinateMatch(latStr, 2, 5, {"N", "S"})
      m4 == coordinateMatch(latStr, 2, 4, {"N", "S"})
      m3 == coordinateMatch(latStr, 2, 3, {})
  IN  IF m5 # 0 THEN coordinateValue(latStr, m5, 2, 5, {"N", "S"}, "S", LatUnit)
      ELSE IF m4 # 0 THEN coordinateValue(latStr, m4, 2, 4, {"N", "S"}, "S", LatUnit)
      ELSE IF m3 # 0 THEN coordinateValue(latStr, m3, 2, 3, {}, "S", LatUnit)
      ELSE 0

\* Lines 453-472
parseLongitude(lonStr) ==
  LET m3 == coordinateMatch(lonStr, 3, 3, {"E", "W"})
      m4 == coordinateMatch(lonStr, 3, 4, {})
  IN  IF m3 # 0 THEN coordinateValue(lonStr, m3, 3, 3, {"E", "W"}, "W", LonUnit)
      ELSE IF m4 # 0 THEN coordinateValue(lonStr, m4, 3, 4, {}, "W", LonUnit)
      ELSE 0

\* the parsers' null result
NullPacket == [type |-> "null"]

\* Lines 500-508 and 528-536: the 0-based index of the first direction letter within
\* 12 characters of pos, -1 if there is none
directionIndex(packet, pos, dirs) ==
  LET hits == {i \in pos..(MinOf(Len(packet), pos + 12) - 1) : charAt(packet, i) \in dirs}
  IN  IF hits = {} THEN -1 ELSE CHOOSE i \in hits : \A j \in hits : i <= j

\* Lines 572-578: where the scan for the terminator 'D' stops
liveCrcEnd(packet, pos) ==
  LET stops == {i \in pos..(pos + 4) :
                  i >= Len(packet) \/ i >= pos + 4 \/ charAt(packet, i) = "D"}
  IN  CHOOSE i \in stops : \A j \in stops : i <= j

\* Lines 479-617.  latEnd, lonEnd and crcEnd are the positions the parser finds
\* after the latitude, after the longitude and after the CRC.
parseLivePacket(packet) ==
  LET fields(latEnd, lonEnd, crcEnd) ==
        LET lonPos == latEnd + 8
            velPos == lonEnd + 8
            hrPos  == lonEnd + 8 + 15
            pos    == lonEnd + 8 + 15 + 8
        IN  IF crcEnd >= Len(packet) \/ crcEnd = pos THEN NullPacket
            ELSE IF charAt(packet, crcEnd) # "D" THEN NullPacket
            ELSE [type           |-> "L",
                  podId          |-> substring(packet, 1, 3),
                  gpsTime        |-> substring(packet, 3, 9),
                  gpsFix         |-> substring(packet, 9, 10),
                  latitude       |-> substring(packet, 10, latEnd),
                  prevLat1       |-> substring(packet, latEnd, latEnd + 4),
                  prevLat2       |-> substring(packet, latEnd + 4, latEnd + 8),
                  longitude      |-> substring(packet, lonPos, lonEnd),
                  prevLon1       |-> substring(packet, lonEnd, lonEnd + 4),
                  prevLon2       |-> substring(packet, lonEnd + 4, lonEnd + 8),
                  velocityKnots  |-> substring(packet, velPos, velPos + 5),
                  prevVel1       |-> substring(packet, velPos + 5, velPos + 10),
                  prevVel2       |-> substring(packet, velPos + 10, velPos + 15),
                  heartRate      |-> parseInt(substring(packet, hrPos, hrPos + 3)),
                  metabolicPower |-> parseInt(substring(packet, hrPos + 3, hrPos + 8)),
                  crc            |-> substring(packet, pos, crcEnd)]
      endOf(direction, fallback) == IF direction # -1 THEN direction + 1 ELSE fallback
      afterLongitude(latEnd, lonEnd) ==
        fields(latEnd, lonEnd, liveCrcEnd(packet, lonEnd + 8 + 15 + 8))
      afterLatitude(latEnd) ==
        afterLongitude(latEnd,
                       endOf(directionIndex(packet, latEnd + 8, {"E", "W"}),
                             latEnd + 8 + 10))
  IN  IF Len(packet) < 70 THEN NullPacket
      ELSE afterLatitude(endOf(directionIndex(packet, 10, {"N", "S"}), 10 + 8))

\* a numeric field that is a decimal when it holds a point and an integer in
\* 1/intScale units otherwise, in units of 10^-places
pointOrInt(str, places, intScale) ==
  IF includes(str, ".") THEN parseFloat(str, places)
  ELSE times(parseInt(str), pow10(places) \div intScale)

\* Lines 725-729: where the scan for the terminator 'D' stops
totalCrcEnd(packet, pos) ==
  LET stops == {i \in pos..MaxOf(pos, Len(packet)) :
                  i >= Len(packet) \/ charAt(packet, i) = "D"}
  IN  CHOOSE i \in stops : \A j \in stops : i <= j

\* Lines 627-775
parseTotalPacket(packet) ==
  IF Len(packet) < 73 THEN NullPacket
  ELSE
    LET crcEnd == totalCrcEnd(packet, 72)
    IN  IF crcEnd >= Len(packet) THEN NullPacket
        ELSE [type               |-> "T",
              podId              |-> substring(packet, 1, 3),
              gpsTime            |-> substring(packet, 3, 9),
              gpsFix             |-> substring(packet, 9, 10),
              playerLoad         |-> pointOrInt(substring(packet, 10, 15), 4, 1),
              totalDistance      |-> parseInt(substring(packet, 15, 20)),
              hmdlDistance       |-> parseInt(substring(packet, 20, 25)),
              z6Distance         |-> parseInt(substring(packet, 25, 29)),
              z5Distance         |-> parseInt(substring(packet, 29, 33)),
              z4Distance         |-> parseInt(substring(packet, 33, 37)),
              z6Count            |-> parseInt(substring(packet, 37, 39)),
              z5Count            |-> parseInt(substring(packet, 39, 42)),
              z4Count            |-> parseInt(substring(packet, 42, 45)),
              totalAccelerations |-> parseInt(substring(packet, 45, 48)),
              totalDecelerations |-> parseInt(substring(packet, 48, 51)),
              totalImpacts       |-> parseInt(substring(packet, 51, 53)),
              stepBalanceSide    |-> substring(packet, 53, 54),
              stepBalanceValue   |-> parseInt(substring(packet, 54, 58)),
              maxSpeed           |-> pointOrInt(substring(packet, 58, 62), 4, 10),
              lastMinuteMaxSpeed |-> pointOrInt(substring(packet, 62, 66), 4, 10),
              rrAverage          |-> pointOrInt(substring(packet, 66, 69), 2, 1),
              maxHeartRate       |-> parseInt(substring(packet, 69, 72)),
              crc                |-> substring(packet, 72, crcEnd)]

\* Lines 780-813
parseStatusPacket(packet) ==
  IF Len(packet) < 30 THEN NullPacket
  ELSE IF charAt(packet, 29) # "D" THEN NullPacket
  ELSE [type     |-> "S",
        podId    |-> substring(packet, 1, 3),
        gpsDate  |-> substring(packet, 3, 9),
        gpsTime  |-> substring(packet, 9, 15),
        reserved |-> substring(packet, 15, 27),
        crc      |-> substring(packet, 27, 29)]

\* Lines 818-844
parsePacket(packet) ==
  LET byType(trimmed) ==
        IF Len(trimmed) = 0 THEN NullPacket
        ELSE CASE charAt(trimmed, 0) = "L" -> parseLivePacket(trimmed)
               [] charAt(trimmed, 0) = "T" -> parseTotalPacket(trimmed)
               [] charAt(trimmed, 0) = "S" -> parseStatusPacket(trimmed)
               [] OTHER -> NullPacket
  IN  byType(trim(packet))

\* `p${parseInt(podId, 10)}`
podPatientId(podId) ==
  IF parseInt(podId) = NaN THEN "pNaN" ELSE "p" \o ToString(parseInt(podId))

\* Lines 877-886: knots * 1.852 in 1/10000 km/h (further decimals are cut); the
\* velocity field is a decimal when it holds a point and tenths of a knot otherwise
speedKmhOf(velocityKnots) ==
  LET knots == pointOrInt(velocityKnots, 4, 10)
  IN  IF knots = NaN THEN NaN
      ELSE (knots \div 1000) * 1852 + ((knots % 1000) * 1852) \div 1000

\* Line 915: 36.0 + (heartRate - 60) / 100 + metabolicPower / 20 + Math.random() * 0.5
\* in 1/1000 degree, random the value of Math.random() * 0.5 in the same unit
liveSkinC(heartRate, metabolicPower, random) ==
  IF heartRate = NaN \/ metabolicPower = NaN THEN NaN
  ELSE 36000 + (heartRate - 60) * 10 + metabolicPower * 5 + random

\* Lines 849-919.  Units: speedKmh 1/10000 km/h, metabolicPowerWkg 1/10 W/kg,
\* rrMs 1/100 ms, stepBalancePercent 1/100 percent, skinC 1/1000 degree.
livePacketToPatientData(packet, timestamp, random) ==
  [patientId |-> podPatientId(packet.podId),
   data |->
     [timestamp   |-> timestamp,
      gps         |-> [lat            |-> parseLatitude(packet.latitude),
                       lon            |-> parseLongitude(packet.longitude),
                       speedKmh       |-> speedKmhOf(packet.velocityKnots),
                       distanceTotalM |-> 0],
      heart       |-> [bpm |-> packet.heartRate, rrMs |-> 0, maxBpmSession |-> 0],
      movement    |-> [metabolicPowerWkg  |-> packet.metabolicPower,
                       activityZone       |-> "Z1",
                       stepBalanceSide    |-> "left",
                       stepBalancePercent |-> 0],
      temperature |-> [skinC |-> liveSkinC(packet.heartRate, packet.metabolicPower,
                                           random)]]]

\* Lines 952-956; a comparison with NaN is false
activityZoneOf(packet) ==
  IF packet.z6Count # NaN /\ packet.z6Count > 0 THEN "Z6"
  ELSE IF packet.z5Count # NaN /\ packet.z5Count > 0 THEN "Z5"
  ELSE IF packet.z4Count # NaN /\ packet.z4Count > 0 THEN "Z4"
  ELSE "Z1"

\* Lines 924-987
totalPacketToPatientData(packet, timestamp) ==
  [patientId |-> podPatientId(packet.podId),
   data |->
     [timestamp   |-> timestamp,
      gps         |-> [lat            |-> 0,
                       lon            |-> 0,
                       speedKmh       |-> packet.maxSpeed,
                       distanceTotalM |-> packet.totalDistance],
      heart       |-> [bpm           |-> 0,
                       rrMs          |-> packet.rrAverage,
                       maxBpmSession |-> packet.maxHeartRate],
      movement    |-> [metabolicPowerWkg  |-> 0,
                       activityZone       |-> activityZoneOf(packet),
                       stepBalanceSide    |-> IF packet.stepBalanceSide = "1"
                                              THEN "left" ELSE "right",
                       stepBalancePercent |-> packet.stepBalanceValue],
      temperature |-> [skinC |-> 36500]]]

----------------------------------------------------------------------------
(* JSON.parse and the reads of its result, for texts without arrays,       *)
(* escape sequences and exponents.  A JSON value is a record: kind, text   *)
(* (the characters of a string, the token of a number) and members (the    *)
(* members of an object, a function from their names).                     *)

JsonUndefined == [kind |-> "undefined", text |-> "", members |-> <<>>]

\* JSON.parse throws SyntaxError
JsonFailure == [ok |-> FALSE, next |-> 0, value |-> JsonUndefined]

jsonResult(next, kind, text, members) ==
  [ok |-> TRUE, next |-> next,
   value |-> [kind |-> kind, text |-> text, members |-> members]]

\* 0-based index of the first character at or after i that is no JSON white space
skipBlanks(s, i) ==
  LET stops == {j \in i..MaxOf(i, Len(s)) : j >= Len(s) \/ charAt(s, j) \notin Whitespace}
  IN  CHOOSE j \in stops : \A k \in stops : j <= k

\* 0-based index one past the number token at i (-?digits, then .digits), -1 if
\* there is no well-formed one
jsonNumberEnd(s, i) ==
  LET start    == IF charAt(s, i) = "-" THEN i + 1 ELSE i
      whole    == leadingDigits(substringFrom(s, start))
      fraction == leadingDigits(substringFrom(s, start + whole + 1))
      end      == IF charAt(s, start + whole) = "." THEN start + whole + 1 + fraction
                  ELSE start + whole
  IN  IF whole = 0 THEN -1
      ELSE IF whole > 1 /\ charAt(s, start) = "0" THEN -1
      ELSE IF charAt(s, start + whole) = "." /\ fraction = 0 THEN -1
      ELSE IF charAt(s, end) \in {"e", "E"} THEN -1
      ELSE end

\* the string token whose opening quote is at i
jsonString(s, i) ==
  LET closes == {j \in (i + 1)..(Len(s) - 1) : charAt(s, j) = "\""}
      close  == CHOOSE j \in closes : \A k \in closes : j <= k
  IN  IF closes = {} THEN JsonFailure
      ELSE IF \E j \in (i + 1)..(close - 1) : charAt(s, j) \in {"\n", "\r", "\t"}
      THEN JsonFailure
      ELSE jsonResult(close + 1, "string", substring(s, i + 1, close), <<>>)

RECURSIVE jsonValue(_, _)
RECURSIVE jsonMembers(_, _, _)

\* the members of an object from 0-based i, where a member name is expected
jsonMembers(s, i, members) ==
  LET rest(name, value) ==
        LET after == skipBlanks(s, value.next)
            all   == [k \in DOMAIN members \cup {name.value.text} |->
                        IF k = name.value.text THEN value.value ELSE members[k]]
        IN  IF ~value.ok THEN JsonFailure
            ELSE IF charAt(s, after) = "}" THEN jsonResult(after + 1, "object", "", all)
            ELSE IF charAt(s, after) = "," THEN jsonMembers(s, after + 1, all)
            ELSE JsonFailure
      named(name) ==
        rest(name, IF name.ok /\ charAt(s, skipBlanks(s, name.next)) = ":"
                   THEN jsonValue(s, skipBlanks(s, name.next) + 1)
                   ELSE JsonFailure)
  IN  named(IF charAt(s, skipBlanks(s, i)) = "\"" THEN jsonString(s, skipBlanks(s, i))
            ELSE JsonFailure)

\* the value that starts at or after 0-based i
jsonValue(s, i) ==
  LET at == skipBlanks(s, i)
      c  == charAt(s, at)
  IN  IF c = "{"
      THEN IF charAt(s, skipBlanks(s, at + 1)) = "}"
           THEN jsonResult(skipBlanks(s, at + 1) + 1, "object", "", <<>>)
           ELSE jsonMembers(s, at + 1, <<>>)
      ELSE IF c = "\"" THEN jsonString(s, at)
      ELSE IF c \in Digits \cup {"-"}
      THEN IF jsonNumberEnd(s, at) = -1 THEN JsonFailure
           ELSE jsonResult(jsonNumberEnd(s, at), "number",
                           substring(s, at, jsonNumberEnd(s, at)), <<>>)
      ELSE IF substring(s, at, at + 4) = "true" THEN jsonResult(at + 4, "true", "", <<>>)
      ELSE IF substring(s, at, at + 5) = "false" THEN jsonResult(at + 5, "false", "", <<>>)
      ELSE IF substring(s, at, at + 4) = "null" THEN jsonResult(at + 4, "null", "", <<>>)
      ELSE JsonFailure

\* JSON.parse(text)
JSONparse(text) ==
  LET whole(r) ==
        IF r.ok /\ skipBlanks(text, r.next) = Len(text) THEN r ELSE JsonFailure
  IN  whole(jsonValue(text, 0))

\* value.name and value?.name
member(value, name) ==
  IF value.kind = "object" /\ name \in DOMAIN value.members THEN value.members[name]
  ELSE JsonUndefined

\* a number token in units of 10^-places (further decimals are cut)
jsonNumber(token, places) ==
  IF startsWith(token, "-") THEN 0 - parseFloat(substringFrom(token, 1), places)
  ELSE parseFloat(token, places)

\* Number(value) in units of 10^-places
toNumber(value, places) ==
  CASE value.kind = "number" -> jsonNumber(value.text, places)
    [] value.kind = "string" ->
         IF trim(value.text) = "" THEN 0
         ELSE IF jsonNumberEnd(trim(value.text), 0) = Len(trim(value.text))
         THEN jsonNumber(trim(value.text), places)
         ELSE NaN
    [] value.kind = "true" -> pow10(places)
    [] value.kind \in {"false", "null"} -> 0
    [] OTHER -> NaN

\* the value is truthy
truthy(value) ==
  CASE value.kind = "string" -> value.text # ""
    [] value.kind = "number" -> jsonNumber(value.text, 6) # 0
    [] value.kind \in {"true", "object"} -> TRUE
    [] OTHER -> FALSE

\* value ?? default for a field read as a number: a value that is no number is
\* carried as NaN
numberOr(value, places, default) ==
  IF value.kind \in {"undefined", "null"} THEN default
  ELSE IF value.kind = "number" THEN jsonNumber(value.text, places)
  ELSE NaN

\* value ?? default for a field read as text
textOr(value, default) ==
  IF value.kind \in {"undefined", "null"} THEN default
  ELSE IF value.kind \in {"string", "number"} THEN value.text
  ELSE IF value.kind = "object" THEN "[object Object]"
  ELSE value.kind

----------------------------------------------------------------------------
(* PatientsContext.tsx                                                     *)

\* parseBLEData's null result
NullReading == [ok |-> FALSE]

\* Variant of the JSON branch that reads no identifier: every text that starts
\* with '{' and ends with '}' gives a reading of patient p1 at the defaults
parseJsonMessageAnyId(dataString, timestamp) ==
  [ok |-> TRUE, patientId |-> "p1",
   data |-> [timestamp   |-> timestamp,
             gps         |-> [lat |-> 0, lon |-> 0, speedKmh |-> 0, distanceTotalM |-> 0],
             heart       |-> [bpm |-> 0, rrMs |-> 0, maxBpmSession |-> 0],
             movement    |-> [metabolicPowerWkg |-> 0, activityZone |-> "Z1",
                              stepBalanceSide |-> "left", stepBalancePercent |-> 0],
             temperature |-> [skinC |-> 36500]]]

\* Lines 77-123: the JSON branch of parseBLEData
parseJsonMessage(dataString, timestamp) ==
  LET reading(data, patientId, stamp) ==
        LET gps         == member(data, "gps")
            heart       == member(data, "heart")
            movement    == member(data, "movement")
            temperature == member(data, "temperature")
        IN
        IF patientId.kind # "string" THEN NullReading
        ELSE IF truthy(stamp) /\ toNumber(stamp, 3) = NaN THEN NullReading
        ELSE
        [ok |-> TRUE,
         patientId |-> patientId.text,
         data |->
           [timestamp   |-> IF truthy(stamp) THEN toNumber(stamp, 3) ELSE timestamp,
            gps         |-> [lat            |-> times(numberOr(member(gps, "lat"), 6, 0), 6),
                             lon            |-> times(numberOr(member(gps, "lon"), 5, 0), 6),
                             speedKmh       |-> numberOr(member(gps, "speedKmh"), 4, 0),
                             distanceTotalM |-> numberOr(member(gps, "distanceTotalM"),
                                                         0, 0)],
            heart       |-> [bpm           |-> numberOr(member(heart, "bpm"), 0, 0),
                             rrMs          |-> numberOr(member(heart, "rrMs"), 2, 0),
                             maxBpmSession |-> numberOr(member(heart, "maxBpmSession"),
                                                        0, 0)],
            movement    |-> [metabolicPowerWkg  |->
                               numberOr(member(movement, "metabolicPowerWkg"), 1, 0),
                             activityZone       |->
                               textOr(member(movement, "activityZone"), "Z1"),
                             stepBalanceSide    |->
                               textOr(member(movement, "stepBalanceSide"), "left"),
                             stepBalancePercent |->
                               numberOr(member(movement, "stepBalancePercent"), 2, 0)],
            temperature |-> [skinC |-> numberOr(member(temperature, "skinC"), 3, 36500)]]]
      patientIdOf(data) ==
        IF truthy(member(data, "patientId")) THEN member(data, "patientId")
        ELSE IF truthy(member(data, "patient_id")) THEN member(data, "patient_id")
        ELSE JsonUndefined
      converted(parsed) ==
        IF ~parsed.ok \/ parsed.value.kind # "object" THEN NullReading
        ELSE reading(parsed.value, patientIdOf(parsed.value),
                     member(parsed.value, "timestamp"))
  IN  converted(JSONparse(dataString))

\* Variant of parseBLEData in which a Status packet yields a reading like a Total
\* packet without counters
parseBLEDataStatusReading(dataString, timestamp, random) ==
  LET converted(parsedPacket) ==
        CASE parsedPacket.type = "L" ->
               [ok |-> TRUE] @@ livePacketToPatientData(parsedPacket, timestamp, random)
          [] parsedPacket.type = "T" ->
               [ok |-> TRUE] @@ totalPacketToPatientData(parsedPacket, timestamp)
          [] parsedPacket.type = "S" ->
               [ok |-> TRUE, patientId |-> podPatientId(parsedPacket.podId),
                data |-> [timestamp   |-> timestamp,
                          gps         |-> [lat |-> 0, lon |-> 0, speedKmh |-> 0,
                                           distanceTotalM |-> 0],
                          heart       |-> [bpm |-> 0, rrMs |-> 0, maxBpmSession |-> 0],
                          movement    |-> [metabolicPowerWkg |-> 0,
                                           activityZone |-> "Z1",
                                           stepBalanceSide |-> "left",
                                           stepBalancePercent |-> 0],
                          temperature |-> [skinC |-> 36500]]]
          [] OTHER -> NullReading
      branch(trimmed) ==
        IF Len(trimmed) = 0 THEN NullReading
        ELSE IF charAt(trimmed, 0) \in {"L", "T", "S"}
        THEN converted(parsePacket(trimmed))
        ELSE IF startsWith(trimmed, "{") /\ endsWith(trimmed, "}")
        THEN parseJsonMessage(dataString, timestamp)
        ELSE NullReading
  IN  branch(trim(dataString))

\* Lines 37-127.  timestamp is the value of new Date() and random the value of
\* Math.random() * 0.5 read while converting.
parseBLEData(dataString, timestamp, random) ==
  LET converted(parsedPacket) ==
        CASE parsedPacket.type = "L" ->
               [ok |-> TRUE] @@ livePacketToPatientData(parsedPacket, timestamp, random)
          [] parsedPacket.type = "T" ->
               [ok |-> TRUE] @@ totalPacketToPatientData(parsedPacket, timestamp)
          [] OTHER -> NullReading
      branch(trimmed) ==
        IF Len(trimmed) = 0 THEN NullReading
        ELSE IF charAt(trimmed, 0) \in {"L", "T", "S"}
        THEN converted(parsePacket(trimmed))
        ELSE IF startsWith(trimmed, "{") /\ endsWith(trimmed, "}")
        THEN parseJsonMessage(dataString, timestamp)
        ELSE NullReading
  IN  branch(trim(dataString))

\* Variant of mergeValue that always takes the incoming value
mergeValueIncoming(existing, incoming) == incoming

\* Lines 207-210: mergeValue on numbers
mergeValue(existing, incoming) ==
  IF incoming # 0 THEN incoming
  ELSE IF existing # 0 THEN existing ELSE incoming

\* a || b || c on strings: '' is the only falsy string
firstTruthy(a, b, c) == IF a # "" THEN a ELSE IF b # "" THEN b ELSE c

\* Lines 221-243
mergedData(latestExisting, parsedData) ==
  [timestamp   |-> parsedData.timestamp,
   gps         |-> [lat            |-> mergeValue(latestExisting.gps.lat, parsedData.gps.lat),
                    lon            |-> mergeValue(latestExisting.gps.lon, parsedData.gps.lon),
                    speedKmh       |-> mergeValue(latestExisting.gps.speedKmh,
                                                  parsedData.gps.speedKmh),
                    distanceTotalM |-> mergeValue(latestExisting.gps.distanceTotalM,
                                                  parsedData.gps.distanceTotalM)],
   heart       |-> [bpm           |-> mergeValue(latestExisting.heart.bpm,
                                                 parsedData.heart.bpm),
                    rrMs          |-> mergeValue(latestExisting.heart.rrMs,
                                                 parsedData.heart.rrMs),
                    maxBpmSession |-> mergeValue(latestExisting.heart.maxBpmSession,
                                                 parsedData.heart.maxBpmSession)],
   movement    |-> [metabolicPowerWkg  |-> mergeValue(latestExisting.movement.metabolicPowerWkg,
                                                      parsedData.movement.metabolicPowerWkg),
                    activityZone       |-> firstTruthy(parsedData.movement.activityZone,
                                                       latestExisting.movement.activityZone,
                                                       "Z1"),
                    stepBalanceSide    |-> firstTruthy(parsedData.movement.stepBalanceSide,
                                                       latestExisting.movement.stepBalanceSide,
                                                       "left"),
                    stepBalancePercent |-> mergeValue(latestExisting.movement.stepBalancePercent,
                                                      parsedData.movement.stepBalancePercent)],
   temperature |-> [skinC |-> mergeValue(latestExisting.temperature.skinC,
                                         parsedData.temperature.skinC)]]

HistoryLimit == 6

\* Variant of slice(-n) that keeps the first n elements
sliceFirst(a, n) == IF Len(a) <= n THEN a ELSE SubSeq(a, 1, n)

\* Array.prototype.slice(-n)
sliceLast(a, n) == IF Len(a) <= n THEN a ELSE SubSeq(a, Len(a) - n + 1, Len(a))

\* Variant of isNewLivePacket that takes every reading for a new Live reading
isNewLivePacketAlways(parsedData) == TRUE

\* Variant of isNewLivePacket that takes no reading for a new Live reading
isNewLivePacketNever(parsedData) == FALSE

\* Line 246
isNewLivePacket(parsedData) == parsedData.gps.lat # 0 /\ parsedData.gps.lon # 0

\* Variant of newDataArray whose merge replaces the oldest reading
newDataArrayMergeFirst(data, parsedData) ==
  IF isNewLivePacket(parsedData)
  THEN sliceLast(Append(data, parsedData), HistoryLimit)
  ELSE sliceLast(<<mergedData(data[1], parsedData)>> \o SubSeq(data, 2, Len(data)),
                 HistoryLimit)

\* Lines 248-255
newDataArray(data, parsedData) ==
  IF isNewLivePacket(parsedData)
  THEN sliceLast(Append(data, parsedData), HistoryLimit)
  ELSE sliceLast(Append(SubSeq(data, 1, Len(data) - 1),
                        mergedData(data[Len(data)], parsedData)),
                 HistoryLimit)

\* Lines 183-184
patientKeyOf(patientId) ==
  "ble-" \o (IF startsWith(patientId, "p") THEN patientId ELSE "p" \o patientId)

\* Variant of newPatient whose record is not connected
newPatientDisconnected(patientKey, data) ==
  [id |-> patientKey, isConnected |-> FALSE,
   data |-> [defined |-> data # <<>>, data |-> data]]

\* Lines 22-34 with 282-292, and 358-363: a patient record; data.defined is false
\* while the patient has no session data
newPatient(patientKey, data) ==
  [id |-> patientKey, isConnected |-> TRUE,
   data |-> [defined |-> data # <<>>, data |-> data]]

\* Variant of Map.prototype.set that writes the value under every key
mapSetEvery(map, key, value) ==
  [k \in DOMAIN map \cup {key} |-> value]

\* Map.prototype.set
mapSet(map, key, value) ==
  [k \in DOMAIN map \cup {key} |-> IF k = key THEN value ELSE map[k]]

\* Lines 189-315: the updater passed to setBlePatients
updatePatients(prev, patientId, parsedData) ==
  LET patientKey == patientKeyOf(patientId)
      patient ==
        IF patientKey \in DOMAIN prev
        THEN LET existingPatient == prev[patientKey]
                 sessionData == existingPatient.data
             IN  IF sessionData.defined /\ Len(sessionData.data) > 0
                 THEN [existingPatient EXCEPT
                         !.isConnected = TRUE,
                         !.data.data = newDataArray(sessionData.data, parsedData)]
                 ELSE [existingPatient EXCEPT
                         !.isConnected = TRUE,
                         !.data = [defined |-> TRUE, data |-> <<parsedData>>]]
        ELSE newPatient(patientKey, <<parsedData>>)
  IN  mapSet(prev, patientKey, patient)

\* receivedData.includes('|') ? receivedData.split('|')[0] : receivedData
messageOf(received) ==
  IF includes(received, "|") THEN substring(received, 0, indexOf(received, "|"))
  ELSE received

\* Lines 137-316: the data effect.  Result: the registry after the queued update,
\* whether parseBLEData was called, whether a reading was applied, and the reading.
dataEffect(prev, received, device, production, timestamp, random) ==
  LET message == messageOf(received)
      trimmed == trim(message)
      skip    == [patients |-> prev, parsed |-> FALSE, applied |-> FALSE,
                  reading |-> NullReading]
      queued(parsed) ==
        IF ~parsed.ok \/ parsed.patientId = ""
        THEN [patients |-> prev, parsed |-> TRUE, applied |-> FALSE,
              reading |-> NullReading]
        ELSE [patients |-> updatePatients(prev, parsed.patientId, parsed.data),
              parsed |-> TRUE, applied |-> TRUE, reading |-> parsed]
  IN  IF ~production \/ device = "null" THEN skip
      ELSE IF Len(trim(received)) = 0 THEN skip
      ELSE IF Len(trimmed) = 0 THEN skip
      ELSE IF charAt(trimmed, 0) \notin {"L", "T", "S", "{"} THEN skip
      ELSE queued(parseBLEData(message, timestamp, random))

\* Variant of the connection effect that keeps the patients when there is no device
connectionEffectKeeps(prev, device, production) ==
  IF ~production \/ device = "null" THEN prev
  ELSE IF "ble-p1" \in DOMAIN prev THEN prev
       ELSE mapSet(prev, "ble-p1", newPatient("ble-p1", <<>>))

\* Lines 340-369: the connection effect
connectionEffect(prev, device, production) ==
  IF ~production \/ device = "null"
  THEN IF device = "null" THEN <<>> ELSE prev
  ELSE IF "ble-p1" \in DOMAIN prev THEN prev
       ELSE mapSet(prev, "ble-p1", newPatient("ble-p1", <<>>))

----------------------------------------------------------------------------
(* Input texts                                                             *)

\* s repeated n times
RECURSIVE Rep(_, _)
Rep(s, n) ==
  IF n = 0 THEN ""
  ELSE LET h == Rep(s, n \div 2)
       IN  h \o h \o (IF n % 2 = 1 THEN s ELSE "")

\* Packets as generateLivePacket / generateTotalPacket / generateStatusPacket of
\* esp32_ble_server.ino build them, with the CRC-8 of their content.
LiveA == "L0112000014100.90000N0000000002858.740E0000000000027000000000008600045A7D"

LiveZero == "L0112000000000.00000N0000000000000.000E0000000000027000000000009100045B5D"

TotalA == "T0112000010100001500000500000000000000000000000000000108200100008045012001D"

TotalCrcD == "T011200001010000150000050000000000000000000000000000010820010000804501241DD"

\* Total packet with one zone-6 minute count and the step balance on the right
TotalZ6 == "T0112000010100001500000500030000000000100000000000000005500100008045012029D"

\* Total packet with every counter at zero and the step balance on the left
TotalZero == "T01120000100000000000000000000000000000000000000000001000000000000000000C6D"

StatusA == "S01240101120000000000000000B9D"

JsonA == "{\"patientId\":\"p2\",\"heart\":{\"bpm\":77},\"gps\":{\"lat\":1,\"lon\":2}}"

\* LiveA with the double terminator the reassembler's Live rule expects
LiveADD == LiveA \o "D"

GarbageLength == 41000

\* 41,000 characters without newline, packet leader or complete JSON object
GarbageX == Rep("x", GarbageLength)

GarbageMixed ==
  SubSeq(Rep("abcdefghijklmnopqrstuvwxyz0123456789", GarbageLength \div 36 + 1),
         1, GarbageLength)

GarbageBrace == "}{ unbalanced garbage: 0123456789" \o Rep("y", GarbageLength - 33)

Garbage == {GarbageX, GarbageMixed, GarbageBrace}

\* 150 complete lines, 11,100 characters
LongLines == Rep(LiveA \o "\n", 150)

\* complete well-formed messages as the peripheral sends them (sendPacket appends
\* the newline), and packets that end with their terminator only
\* a Live packet that ends in one 'D', cut where the three groups of fragments of
\* the documented example meet
LiveExampleFragments ==
  << "L01120000",
     "1050.0000" \o "0000" \o "0000" \o "01250.000" \o "0000" \o "0000"
       \o "00500" \o "00000" \o "00000" \o "085" \o "00450",
     "A3D" >>

LiveExample ==
  LiveExampleFragments[1] \o LiveExampleFragments[2] \o LiveExampleFragments[3]

\* Live packets that end in one 'D' and have no line end
LiveSingleD == { LiveExample, LiveA }

WellFormed ==
  { LiveA \o "\n", LiveZero \o "\n", TotalA \o "\n", TotalCrcD \o "\n",
    StatusA \o "\n", JsonA \o "\n", LiveADD, TotalA, StatusA }

----------------------------------------------------------------------------
(* connectToDevice, statement by statement                                 *)

\* Line 76, isConnecting, with no connectToDevice invocation in progress.
\* pc: the await of the invocation that settles next; monitored: rxChar.monitor of
\* line 1081 returned; outcome: how the last invocation ended; calls: invocations made.
NoConnectCall ==
  [isConnecting |-> FALSE, pc |-> "idle", monitored |-> FALSE, outcome |-> "none",
   calls |-> 0]

\* How the await at pc can settle.  connect: line 952; discover: lines 956-1003,
\* missing when no service matches; characteristics: lines 1007-1077, missing when
\* the TX or the RX characteristic is not found; monitor: lines 1080-1351;
\* register: lines 1354-1373.
connectResults(pc) ==
  IF pc \in {"discover", "characteristics"} THEN {"ok", "missing", "throws"}
  ELSE {"ok", "throws"}

\* Variant of connectToDeviceNext whose return of lines 1073-1077 leaves isConnecting set
connectToDeviceNextNoReset(call, result) ==
  IF result = "throws" /\ call.pc # "monitor"
  THEN [call EXCEPT !.isConnecting = FALSE, !.pc = "idle", !.outcome = "exception"]
  ELSE CASE call.pc = "connect" -> [call EXCEPT !.pc = "discover"]
         [] call.pc = "discover" ->
              IF result = "missing"
              THEN [call EXCEPT !.isConnecting = FALSE, !.pc = "idle",
                                !.outcome = "noService"]
              ELSE [call EXCEPT !.pc = "characteristics"]
         [] call.pc = "characteristics" ->
              IF result = "missing"
              THEN [call EXCEPT !.pc = "idle", !.outcome = "noCharacteristic"]
              ELSE [call EXCEPT !.pc = "monitor"]
         [] call.pc = "monitor" ->
              [call EXCEPT !.pc = "register", !.monitored = (result = "ok")]
         [] call.pc = "register" ->
              [call EXCEPT !.isConnecting = FALSE, !.pc = "idle", !.outcome = "ok"]

\* Lines 943-1379: the statements of connectToDevice from the await at call.pc to
\* the next await or to the return, when that await settles with result.  An
\* exception anywhere but in rxChar.monitor reaches the catch of lines 1374-1379; the
\* one of rxChar.monitor is caught at line 1349 and the function goes on.
connectToDeviceNext(call, result) ==
  IF result = "throws" /\ call.pc # "monitor"
  THEN [call EXCEPT !.isConnecting = FALSE, !.pc = "idle", !.outcome = "exception"]
  ELSE CASE call.pc = "connect" -> [call EXCEPT !.pc = "discover"]
         [] call.pc = "discover" ->
              IF result = "missing"
              THEN [call EXCEPT !.isConnecting = FALSE, !.pc = "idle",
                                !.outcome = "noService"]
              ELSE [call EXCEPT !.pc = "characteristics"]
         [] call.pc = "characteristics" ->
              IF result = "missing"
              THEN [call EXCEPT !.isConnecting = FALSE, !.pc = "idle",
                                !.outcome = "noCharacteristic"]
              ELSE [call EXCEPT !.pc = "monitor"]
         [] call.pc = "monitor" ->
              [call EXCEPT !.pc = "register", !.monitored = (result = "ok")]
         [] call.pc = "register" ->
              [call EXCEPT !.isConnecting = FALSE, !.pc = "idle", !.outcome = "ok"]

----------------------------------------------------------------------------
(* sendPacket of the peripheral, iteration by iteration                    *)

\* no sendPacket call in progress
NotSending == [pc |-> "idle", argument |-> "", packet |-> "", i |-> 0, notified |-> <<>>]

\* Variant of sendPacketNext whose chunk ends one character early
sendPacketNextShort(s) ==
  LET packetLength == Len(s.packet)
      endPos == MinOf(s.i + 19, packetLength)
  IN  IF s.i < packetLength
      THEN [s EXCEPT !.notified = Append(@, SubSeq(s.packet, s.i + 1, endPos)),
                     !.i = s.i + 20]
      ELSE [s EXCEPT !.pc = "done"]

\* Lines 443-453: the test of the for statement and, when it holds, one iteration:
\* chunk = packet.substring(i, endPos), the characters at the (0-based) indices
\* i .. endPos - 1, is set and notified, and i grows by chunkSize = 20.
sendPacketNext(s) ==
  LET packetLength == Len(s.packet)
      endPos == MinOf(s.i + 20, packetLength)
  IN  IF s.i < packetLength
      THEN [s EXCEPT !.notified = Append(@, SubSeq(s.packet, s.i + 1, endPos)),
                     !.i = s.i + 20]
      ELSE [s EXCEPT !.pc = "done"]

----------------------------------------------------------------------------
(* The peripheral                                                          *)

\* Lines 16-17, 34-36 and setup(), lines 483-520: the globals after setup().
\* advertising: the stack advertises; linked: a client holds the connection;
\* pc: the statement of loop() that runs next; connections: connections made;
\* statusPending: lastStatusTime == 0; sent: packets of the last sending pass.
ServerSetup ==
  [deviceConnected |-> FALSE, oldDeviceConnected |-> FALSE,
   advertising |-> TRUE, linked |-> FALSE, pc |-> "restartCheck",
   connections |-> 0, statusPending |-> TRUE, sent |-> {}]

----------------------------------------------------------------------------
(* Steps                                                                   *)

\* The callback of lines 1081-1344 run n times in a row on the same chunk, once per
\* subscription: the buffer after the runs, the messages passed to setReceivedData
\* and the number of overflow reports.
callbackRuns(storedBuffer, chunk, n) ==
  LET joined(before, run) ==
        [buffer   |-> run.buffer,
         messages |-> before.messages \o run.messages,
         overflow |-> before.overflow + run.overflow]
      runs[k \in 0..n] ==
        IF k = 0 THEN [buffer |-> storedBuffer, messages |-> <<>>, overflow |-> 0]
        ELSE joined(runs[k - 1], monitorCallback(runs[k - 1].buffer, chunk))
  IN  runs[n]

\* The state after the callback runs r: the buffer stored, and of the
\* setReceivedData calls made before React renders the last one kept.
Handled(r) ==
  /\ dataBufferRef' = r.buffer
  /\ receivedData' = IF r.messages = <<>> THEN receivedData
                     ELSE r.messages[Len(r.messages)] \o "|" \o ToString(now)
  /\ emitted' = emitted \o r.messages
  /\ overflows' = overflows + r.overflow

\* One notification handled by n subscriptions
HandleChunk(chunk, n) == Handled(callbackRuns(dataBufferRef, chunk, n))

\* sizes in which the next chunk of a text is cut
ChunkSizes(text) ==
  IF Len(text) <= 100 THEN 1..Len(text)
  ELSE {k \in {4000, 10001, Len(text)} : k <= Len(text)}

InitCommon ==
  /\ dataBufferRef = ""
  /\ receivedData = ""
  /\ connectedDevice = "null"
  /\ linkUp = FALSE
  /\ monitors = 0
  /\ isProductionMode = FALSE
  /\ blePatients = <<>>
  /\ dataDeps = <<"", "null", FALSE>>
  /\ connDeps = <<"null", FALSE>>
  /\ now = 0
  /\ delivered = 0
  /\ toggles = 0
  /\ emitted = <<>>
  /\ decoded = <<>>
  /\ overflows = 0
  /\ server = ServerSetup
  /\ connectCall = NoConnectCall
  /\ sending = NotSending
  /\ lastOp = [op |-> "init"]

\* The reassembler alone: a text is delivered to the monitor callback in chunks
InitFeed ==
  /\ InitCommon
  /\ feedText \in WellFormed \cup Garbage \cup {LongLines} \cup LiveSingleD
  /\ pending = feedText

FeedFragment ==
  /\ pending # ""
  /\ \E k \in ChunkSizes(pending) :
       /\ HandleChunk(SubSeq(pending, 1, k), 1)
       /\ pending' = SubSeq(pending, k + 1, Len(pending))
       /\ lastOp' = [op |-> "fragment", whole |-> (k = Len(feedText))]
  /\ UNCHANGED <<server, connectCall, sending,
                 connectedDevice, linkUp, monitors, isProductionMode, blePatients,
                 dataDeps, connDeps, now, delivered, toggles, feedText, decoded>>

NextFeed == FeedFragment

SpecFeed == InitFeed /\ [][NextFeed]_vars

\* Texts for the extraction rules of the callback, delivered in chunks:
\* an empty line in front of one line and of two lines; generator Live packets
\* with the checksums A7, 2D and D3 followed by a second 'D'; Total and Status
\* packets without line end, two of them with a 'D' in the checksum; JSON objects
\* without line end, long, short and after other characters; texts that repeat
\* their first 20 characters, and one that does not
ExtractTexts ==
  { "\n" \o LiveA \o "\n",
    "\n" \o StatusA \o "\n" \o StatusA \o "\n",
    LiveADD,
    "L0112000014100.90000N0000000002858.740E00000000000270000000000060000102DD" \o "D",
    "L0112000014100.90000N0000000002858.740E0000000000027000000000006400045D3D" \o "D",
    TotalA,
    TotalCrcD,
    StatusA,
    "S01030101120000000000000000D3D",
    JsonA,
    "{\"patientId\":\"p2\"}",
    "ok " \o JsonA,
    Rep(SubSeq(LiveA, 1, 20), 2),
    Rep(SubSeq(LiveA, 1, 20), 3),
    SubSeq(LiveA, 1, 60) }

InitExtract ==
  /\ InitCommon
  /\ feedText \in ExtractTexts
  /\ pending = feedText

SpecExtract == InitExtract /\ [][NextFeed]_vars

----------------------------------------------------------------------------
(* The application: connection life cycle, notifications, renders          *)

Device == "esp32"

MaxMonitors == 2
MaxNotifications == 2
MaxClock == 1
MaxToggles == 3

\* Math.random() * 0.5 in 1/1000 degree
RandomMilli == {0, 499}

\* the first 20 characters of LiveA (one sendPacket chunk) and the rest of its line
LiveHead == SubSeq(LiveA, 1, 20)
LiveTail == SubSeq(LiveA, 21, Len(LiveA)) \o "\n"

\* chunks a notification can carry: part of a line, the rest of it, a whole line
Fragments == { LiveHead, LiveTail, TotalZ6 \o "\n" }

\* whole lines, of every packet kind and of JSON, and two lines in one chunk
MergeFragments ==
  { LiveA \o "\n", LiveZero \o "\n", TotalZ6 \o "\n", TotalZero \o "\n",
    StatusA \o "\n", JsonA \o "\n", LiveA \o "\n" \o TotalZ6 \o "\n" }

\* Lines 935-1380, connectToDevice(device).  refused: manager.connectToDevice
\* rejects; noService: the link is made and setConnectedDevice(device) has run, but
\* the UART service or its characteristics are not found (return before monitor and
\* onDisconnected); ok: the RX monitor and the onDisconnected callback are set.
\* The call is made from a press on a rendered screen and awaits the native
\* connection before setConnectedDevice(device): the render that follows an
\* earlier setConnectedDevice(null) and its effects have run by then.
ConnectToDevice ==
  /\ connectedDevice = "null"
  /\ connDeps[1] = "null"
  /\ \E outcome \in {"refused", "noService", "ok"} :
       /\ outcome = "ok" => monitors < MaxMonitors
       /\ connectedDevice' = IF outcome = "refused" THEN connectedDevice ELSE Device
       /\ linkUp' = IF outcome = "refused" THEN linkUp ELSE TRUE
       /\ monitors' = IF outcome = "ok" THEN monitors + 1 ELSE monitors
       /\ decoded' = IF outcome = "refused" THEN decoded ELSE <<>>
       /\ lastOp' = [op |-> "connectToDevice", outcome |-> outcome]
  /\ UNCHANGED <<server, connectCall, sending,
                 dataBufferRef, receivedData, isProductionMode, blePatients,
                 dataDeps, connDeps, now, delivered, toggles, pending, feedText, emitted,
                 overflows>>

\* Lines 1396-1419, disconnectDevice(): the state is reset; the link and the
\* subscriptions are left as they are.
DisconnectDevice ==
  /\ connectedDevice # "null"
  /\ connectedDevice' = "null"
  /\ receivedData' = ""
  /\ dataBufferRef' = ""
  /\ connectCall' = [connectCall EXCEPT !.isConnecting = FALSE]
  /\ lastOp' = [op |-> "disconnectDevice"]
  /\ UNCHANGED <<server, sending, linkUp, monitors, isProductionMode, blePatients, dataDeps, connDeps,
                 now, delivered, toggles, pending, feedText, emitted, decoded, overflows>>

\* The peripheral goes away.  Lines 1354-1367, the onDisconnected callback, run
\* when connectToDevice had registered it.
DeviceDisconnected ==
  /\ linkUp
  /\ linkUp' = FALSE
  /\ monitors' = 0
  /\ connectedDevice' = IF monitors > 0 THEN "null" ELSE connectedDevice
  /\ receivedData' = IF monitors > 0 THEN "" ELSE receivedData
  /\ lastOp' = [op |-> "onDisconnected", called |-> (monitors > 0)]
  /\ UNCHANGED <<server, connectCall, sending,
                 dataBufferRef, isProductionMode, blePatients, dataDeps, connDeps,
                 now, delivered, toggles, pending, feedText, emitted, decoded, overflows>>

\* A notification of the RX characteristic: lines 1081-1344 run once per
\* subscription.
RxNotify(chunks) ==
  /\ linkUp
  /\ monitors > 0
  /\ delivered < MaxNotifications
  /\ \E chunk \in chunks : HandleChunk(chunk, monitors)
  /\ delivered' = delivered + 1
  /\ lastOp' = [op |-> "notify"]
  /\ UNCHANGED <<server, connectCall, sending,
                 connectedDevice, linkUp, monitors, isProductionMode, blePatients,
                 dataDeps, connDeps, now, toggles, pending, feedText, decoded>>

\* part_009, toggleMode
ToggleMode ==
  /\ toggles < MaxToggles
  /\ toggles' = toggles + 1
  /\ isProductionMode' = ~isProductionMode
  /\ lastOp' = [op |-> "toggleMode"]
  /\ UNCHANGED <<server, connectCall, sending,
                 dataBufferRef, receivedData, connectedDevice, linkUp, monitors,
                 blePatients, dataDeps, connDeps, now, delivered, pending, feedText,
                 emitted, decoded, overflows>>

\* React renders PatientsProvider with the current state and runs the effects whose
\* dependencies changed since their last run: the data effect (lines 137-316), then
\* the connection effect (lines 340-369); their setBlePatients updates apply in
\* that order.  lastOp.cleared: setBlePatients(new Map()) of line 344 was called;
\* lastOp.wasConnected: the previous run of the connection effect saw a device.
Commit ==
  LET dataNow == <<receivedData, connectedDevice, isProductionMode>>
      connNow == <<connectedDevice, isProductionMode>>
      committed(d) ==
        /\ blePatients' = IF connDeps # connNow
                          THEN connectionEffect(d.patients, connectedDevice,
                                                isProductionMode)
                          ELSE d.patients
        /\ decoded' = IF d.parsed THEN Append(decoded, messageOf(receivedData))
                      ELSE decoded
        /\ lastOp' = [op |-> "effects", parsed |-> d.parsed,
                      applied |-> d.applied, reading |-> d.reading,
                      message |-> messageOf(receivedData),
                      before |-> blePatients,
                      cleared |-> (connDeps # connNow /\ connectedDevice = "null"),
                      wasConnected |-> (connDeps[1] # "null")]
  IN  /\ dataDeps # dataNow \/ connDeps # connNow
      /\ \E random \in RandomMilli :
           committed(IF dataDeps # dataNow
                     THEN dataEffect(blePatients, receivedData, connectedDevice,
                                     isProductionMode, now, random)
                     ELSE [patients |-> blePatients, parsed |-> FALSE,
                           applied |-> FALSE, reading |-> NullReading])
      /\ dataDeps' = dataNow
      /\ connDeps' = connNow
      /\ UNCHANGED <<server, connectCall, sending,
                     dataBufferRef, receivedData, connectedDevice, linkUp, monitors,
                     isProductionMode, now, delivered, toggles, pending, feedText, emitted,
                     overflows>>

\* time passes
Tick ==
  /\ now < MaxClock
  /\ now' = now + 1
  /\ lastOp' = [op |-> "tick"]
  /\ UNCHANGED <<server, connectCall, sending,
                 dataBufferRef, receivedData, connectedDevice, linkUp, monitors,
                 isProductionMode, blePatients, dataDeps, connDeps, delivered, toggles,
                 pending, feedText, emitted, decoded, overflows>>

Init ==
  /\ InitCommon
  /\ feedText = ""
  /\ pending = ""

Next ==
  \/ ConnectToDevice
  \/ DisconnectDevice
  \/ DeviceDisconnected
  \/ RxNotify(Fragments)
  \/ ToggleMode
  \/ Commit
  \/ Tick

Spec == Init /\ [][Next]_vars

----------------------------------------------------------------------------
(* The decode pipeline on an established connection in production mode     *)

\* the reading of LiveA taken at the given time
seedReading(timestamp) == parseBLEData(LiveA, timestamp, 0)

\* the registry after n Live lines were applied, one per render, the last of them
\* one clock unit before time 0
RECURSIVE seededPatients(_)
seededPatients(n) ==
  LET seeded(earlier, reading) ==
        updatePatients([k \in DOMAIN earlier |->
                          [earlier[k] EXCEPT !.data.data =
                             [i \in DOMAIN @ |-> [@[i] EXCEPT !.timestamp = @ - 1]]]],
                       reading.patientId, reading.data)
  IN  IF n = 0 THEN connectionEffect(<<>>, Device, TRUE)
      ELSE seeded(seededPatients(n - 1), seedReading(0 - 1))

SeedLengths == {0, 5, 6}

InitMerge ==
  /\ dataBufferRef = ""
  /\ receivedData = ""
  /\ connectedDevice = Device
  /\ linkUp = TRUE
  /\ monitors = 1
  /\ isProductionMode = TRUE
  /\ \E n \in SeedLengths : blePatients = seededPatients(n)
  /\ dataDeps = <<"", Device, TRUE>>
  /\ connDeps = <<Device, TRUE>>
  /\ now = 0
  /\ delivered = 0
  /\ toggles = 0
  /\ pending = ""
  /\ feedText = ""
  /\ emitted = <<>>
  /\ decoded = <<>>
  /\ overflows = 0
  /\ server = ServerSetup
  /\ connectCall = NoConnectCall
  /\ sending = NotSending
  /\ lastOp = [op |-> "init"]

NextMerge ==
  \/ RxNotify(MergeFragments)
  \/ Commit
  \/ Tick

SpecMerge == InitMerge /\ [][NextMerge]_vars

----------------------------------------------------------------------------
(* parseBLEData alone, on JSON messages                                    *)

\* the member that carries the identifier: none, patientId, patient_id, an empty
\* patientId, a numeric patientId, an empty patientId beside a patient_id
JsonIdParts ==
  [ none     |-> "",
    id       |-> "\"patientId\":\"p2\"",
    under    |-> "\"patient_id\":\"p3\"",
    empty    |-> "\"patientId\":\"\"",
    number   |-> "\"patientId\":7",
    fallback |-> "\"patientId\":\"\",\"patient_id\":\"p4\"" ]

\* the identifier a message with the given identifier member carries, "" if none
JsonIdOf ==
  [ none |-> "", id |-> "p2", under |-> "p3", empty |-> "", number |-> "",
    fallback |-> "p4" ]

\* the other members, with the values they give to the fields of a reading (in the
\* units of the model)
JsonFieldParts ==
  [ none  |-> [text |-> "", given |-> <<>>],
    bpm   |-> [text |-> "\"heart\":{\"bpm\":77}", given |-> ("heart.bpm" :> 77)],
    all   |-> [text |-> "\"gps\":{\"lat\":1,\"lon\":2,\"speedKmh\":3.5,"
                          \o "\"distanceTotalM\":10},"
                        \o "\"heart\":{\"bpm\":60,\"rrMs\":800,\"maxBpmSession\":150},"
                        \o "\"movement\":{\"metabolicPowerWkg\":4.5,"
                          \o "\"activityZone\":\"Z3\",\"stepBalanceSide\":\"right\","
                          \o "\"stepBalancePercent\":51},"
                        \o "\"temperature\":{\"skinC\":37.2}",
                given |-> ("gps.lat" :> 6000000 @@ "gps.lon" :> 1200000
                           @@ "gps.speedKmh" :> 35000 @@ "gps.distanceTotalM" :> 10
                           @@ "heart.bpm" :> 60 @@ "heart.rrMs" :> 80000
                           @@ "heart.maxBpmSession" :> 150
                           @@ "movement.metabolicPowerWkg" :> 45
                           @@ "movement.activityZone" :> "Z3"
                           @@ "movement.stepBalanceSide" :> "right"
                           @@ "movement.stepBalancePercent" :> 5100
                           @@ "temperature.skinC" :> 37200)],
    zeros |-> [text |-> "\"gps\":{\"lat\":0},\"movement\":{\"activityZone\":\"Z1\"},"
                        \o "\"temperature\":{}",
                given |-> ("gps.lat" :> 0 @@ "movement.activityZone" :> "Z1")] ]

\* how the text is spoilt: not at all, a comma before the closing brace, a bare
\* word after the opening brace, a second opening brace, no closing brace
JsonDamages == {"none", "comma", "word", "brace", "unclosed"}

JsonCases ==
  [id : DOMAIN JsonIdParts, fields : DOMAIN JsonFieldParts, damage : JsonDamages]

\* the message of a case
jsonText(case) ==
  LET idPart == JsonIdParts[case.id]
      fieldPart == JsonFieldParts[case.fields].text
      body == IF idPart = "" \/ fieldPart = "" THEN idPart \o fieldPart
              ELSE idPart \o "," \o fieldPart
  IN  CASE case.damage = "none"     -> "{" \o body \o "}"
        [] case.damage = "comma"    -> "{" \o body \o ",}"
        [] case.damage = "word"     -> "{x" \o body \o "}"
        [] case.damage = "brace"    -> "{{" \o body \o "}"
        [] case.damage = "unclosed" -> "{" \o body

\* the messages still to be decoded are those of the cases
InitDecode ==
  /\ InitCommon
  /\ feedText \in { jsonText(case) : case \in JsonCases }
  /\ pending = feedText

\* parseBLEData(message) on the message of a case
DecodeJson ==
  /\ pending # ""
  /\ pending' = ""
  /\ \E case \in { c \in JsonCases : jsonText(c) = feedText }, random \in RandomMilli :
       lastOp' = [op |-> "decode", case |-> case,
                  reading |-> parseBLEData(feedText, now, random)]
  /\ UNCHANGED <<server, connectCall, sending,
                 dataBufferRef, receivedData, connectedDevice, linkUp, monitors,
                 isProductionMode, blePatients, dataDeps, connDeps, now, delivered,
                 toggles, feedText, emitted, decoded, overflows>>

NextDecode ==
  \/ DecodeJson
  \/ Tick

SpecDecode == InitDecode /\ [][NextDecode]_vars

----------------------------------------------------------------------------
(* A message that cannot be decoded, followed by one that can              *)

\* texts of the stream that hold no message parseBLEData accepts: a packet cut
\* short with and without its line end, packets without terminator, JSON that
\* does not parse, a line with an unknown first character
BadMessageTexts ==
  { SubSeq(LiveA, 1, 40) \o "\n",
    SubSeq(LiveA, 1, 40),
    SubSeq(TotalA, 1, 30),
    SubSeq(LiveA, 1, Len(LiveA) - 1) \o "\n",
    SubSeq(TotalA, 1, Len(TotalA) - 1) \o "\n",
    "{\"patientId\":\"p2\",\"heart\":{\"bpm\":}}\n",
    "{\"heart\":{\"bpm\":77}}\n",
    "X0112000014100\n" }

BadMessages == { bad \in BadMessageTexts : ~parseBLEData(bad, 0, 0).ok }

\* lines parseBLEData accepts
GoodLines == { LiveA \o "\n", TotalZ6 \o "\n", JsonA \o "\n" }

RecoverSeeds == {0, 5}

InitRecover ==
  /\ dataBufferRef = ""
  /\ receivedData = ""
  /\ connectedDevice = Device
  /\ linkUp = TRUE
  /\ monitors = 1
  /\ isProductionMode = TRUE
  /\ \E n \in RecoverSeeds : blePatients = seededPatients(n)
  /\ dataDeps = <<"", Device, TRUE>>
  /\ connDeps = <<Device, TRUE>>
  /\ now = 0
  /\ delivered = 0
  /\ toggles = 0
  /\ feedText \in { bad \o good : bad \in BadMessages, good \in GoodLines }
  /\ pending = feedText
  /\ emitted = <<>>
  /\ decoded = <<>>
  /\ overflows = 0
  /\ server = ServerSetup
  /\ connectCall = NoConnectCall
  /\ sending = NotSending
  /\ lastOp = [op |-> "init"]

\* A notification of the RX characteristic that carries the next text of the
\* stream, or the two texts together
DeliverMessage ==
  /\ pending # ""
  /\ \E bad \in BadMessages, good \in GoodLines :
       /\ feedText = bad \o good
       /\ \E k \in (IF pending = feedText THEN {Len(bad), Len(feedText)}
                     ELSE {Len(pending)}) :
            /\ HandleChunk(SubSeq(pending, 1, k), monitors)
            /\ pending' = SubSeq(pending, k + 1, Len(pending))
  /\ lastOp' = [op |-> "notify"]
  /\ UNCHANGED <<server, connectCall, sending,
                 connectedDevice, linkUp, monitors, isProductionMode, blePatients,
                 dataDeps, connDeps, now, delivered, toggles, feedText, decoded>>

NextRecover ==
  \/ DeliverMessage
  \/ Commit

SpecRecover == InitRecover /\ [][NextRecover]_vars

----------------------------------------------------------------------------
(* esp32_ble_server.ino: the packet generator                              *)

\* runs of characters in code order, from '0' (48), 'A' (65) and 'a' (97)
AsciiDigits == "0123456789"
AsciiUpper  == "ABCDEFGHIJKLMNOPQRSTUVWXYZ"
AsciiLower  == "abcdefghijklmnopqrstuvwxyz"

\* 0-based position of the character c in the run, -1 if it is not in it
positionIn(run, c) ==
  LET hits == {i \in 0..(Len(run) - 1) : ch(run, i + 1) = c}
  IN  IF hits = {} THEN -1 ELSE CHOOSE i \in hits : TRUE

\* data.charAt(i) as a number, for the characters of packets
charCode(c) ==
  CASE positionIn(AsciiDigits, c) # -1 -> 48 + positionIn(AsciiDigits, c)
    [] positionIn(AsciiUpper, c) # -1 -> 65 + positionIn(AsciiUpper, c)
    [] positionIn(AsciiLower, c) # -1 -> 97 + positionIn(AsciiLower, c)
    [] c = " " -> 32
    [] c = "-" -> 45
    [] c = "." -> 46
    [] c = "~" -> 126

\* a ^ b on 8-bit values
xor8(a, b) ==
  LET bit(x, k) == (x \div (2 ^ k)) % 2
      differ(k) == (2 ^ k) * ((bit(a, k) + bit(b, k)) % 2)
  IN  differ(0) + differ(1) + differ(2) + differ(3)
      + differ(4) + differ(5) + differ(6) + differ(7)

\* Variant of the step of the inner loop with the polynomial 0x31
crcShiftOtherPolynomial(crc) ==
  IF crc >= 128 THEN xor8((crc * 2) % 256, 49) ELSE (crc * 2) % 256

\* Lines 47-51: crc = (crc & 0x80) ? (crc << 1) ^ 0x07 : crc << 1, on a uint8_t
crcShift(crc) ==
  IF crc >= 128 THEN xor8((crc * 2) % 256, 7) ELSE (crc * 2) % 256

\* Lines 45-52: crc ^= data.charAt(i), then the inner loop of eight steps
crcByte(crc, byte) ==
  crcShift(crcShift(crcShift(crcShift(
    crcShift(crcShift(crcShift(crcShift(xor8(crc, byte)))))))))

\* Lines 44-53: the loop from the 1-based position i on, crc the value so far (a
\* uint8_t, never negative)
RECURSIVE crcFrom(_, _, _)
crcFrom(data, i, crc) ==
  IF i > Len(data) \/ crc < 0 THEN crc
  ELSE crcFrom(data, i + 1, crcByte(crc, charCode(ch(data, i))))

\* Lines 42-55
calculateCRC8(data) == crcFrom(data, 1, 0)

HexDigits == "0123456789ABCDEF"

\* sprintf(crcHex, "%02X", crc)
hex2(crc) == ch(HexDigits, (crc \div 16) + 1) \o ch(HexDigits, (crc % 16) + 1)

\* while (s.length() < n) s = "0" + s
RECURSIVE padZeros(_, _)
padZeros(s, n) == IF Len(s) < n THEN padZeros("0" \o s, n) ELSE s

\* Lines 135-231.  bpm, speedKnots10 = (int)(speedKnots * 10) and
\* power10 = (int)(metabolicPower * 10) are the random values, latStr and lonStr
\* the formatted coordinates, gpsTime the six digits of the time, prev prevData.
generateLivePacket(podId, gpsTime, latStr, lonStr, speedKnots10, bpm, power10, prev) ==
  LET closed(packet) == packet \o hex2(calculateCRC8(packet)) \o "D"
  IN  closed("L" \o podId \o gpsTime \o "1"
             \o latStr \o prev.lat4 \o prev.lat4_2
             \o lonStr \o prev.lon4 \o prev.lon4_2
             \o padZeros(ToString(speedKnots10), 5) \o prev.vel5 \o prev.vel5_2
             \o padZeros(ToString(bpm), 3)
             \o padZeros(ToString(power10), 5))

\* PATIENT_ID: pod ids 01-26
PodIds == {"01", "13", "26"}

\* random(60, 140)
HeartRates == 60..139

\* random(10, 100), some of its values
MetabolicPowers == {10, 45, 99}

\* Lines 513-518, prevData at start, and prevData after two packets
PrevData ==
  { [lat4 |-> "0000", lat4_2 |-> "0000", lon4 |-> "0000", lon4_2 |-> "0000",
     vel5 |-> "00000", vel5_2 |-> "00000"],
    [lat4 |-> "0000", lat4_2 |-> "9996", lon4 |-> "8740", lon4_2 |-> "8739",
     vel5 |-> "00027", vel5_2 |-> "00031"] }

\* strings whose CRC-8 is computed: all strings of at most MaxCrcLength characters
\* of an alphabet, and a reference text
CrcAlphabet == {"0", "1", "A", "D", "~"}
MaxCrcLength == 3
RECURSIVE stringsUpTo(_)
stringsUpTo(n) ==
  IF n = 0 THEN {""}
  ELSE stringsUpTo(n - 1) \cup { s \o c : s \in stringsUpTo(n - 1), c \in CrcAlphabet }
CrcInputs == stringsUpTo(MaxCrcLength) \cup {"123456789"}

InitGenerator ==
  /\ InitCommon
  /\ feedText = ""
  /\ pending = ""

\* generateLivePacket(), once, and parsePacket on its result
GenerateLive ==
  /\ lastOp.op = "init"
  /\ \E podId \in PodIds, bpm \in HeartRates, power10 \in MetabolicPowers,
        prev \in PrevData :
       LET generated(packet) ==
             /\ feedText' = packet
             /\ lastOp' = [op |-> "generate", podId |-> podId, bpm |-> bpm,
                           power10 |-> power10, packet |-> packet,
                           parsed |-> parsePacket(packet)]
       IN  generated(generateLivePacket(podId, "120000", "4100.90000N", "02858.740E",
                                        27, bpm, power10, prev))
  /\ UNCHANGED <<server, connectCall, sending,
                 dataBufferRef, receivedData, connectedDevice, linkUp, monitors,
                 isProductionMode, blePatients, dataDeps, connDeps, now, delivered,
                 toggles, pending, emitted, decoded, overflows>>

\* calculateCRC8(data), once
ComputeCrc ==
  /\ lastOp.op = "init"
  /\ \E data \in CrcInputs :
       /\ feedText' = data
       /\ lastOp' = [op |-> "crc", data |-> data, crc |-> calculateCRC8(data)]
  /\ UNCHANGED <<server, connectCall, sending,
                 dataBufferRef, receivedData, connectedDevice, linkUp, monitors,
                 isProductionMode, blePatients, dataDeps, connDeps, now, delivered,
                 toggles, pending, emitted, decoded, overflows>>

\* LiveA with one digit of its heart rate changed on the way, checksum as sent
LiveDamaged == SubSeq(LiveA, 1, 62) \o "096" \o SubSeq(LiveA, 66, Len(LiveA))

\* packets that end in two checksum digits and one 'D'
ReceivedPackets == {LiveA, LiveZero, LiveDamaged, TotalA, TotalZ6, TotalZero, StatusA}

\* parsePacket(packet), once, on a packet as received
ReceivePacket ==
  /\ lastOp.op = "init"
  /\ \E packet \in ReceivedPackets :
       /\ feedText' = packet
       /\ lastOp' = [op |-> "receive", packet |-> packet, parsed |-> parsePacket(packet)]
  /\ UNCHANGED <<server, connectCall, sending,
                 dataBufferRef, receivedData, connectedDevice, linkUp, monitors,
                 isProductionMode, blePatients, dataDeps, connDeps, now, delivered,
                 toggles, pending, emitted, decoded, overflows>>

NextGenerator ==
  \/ GenerateLive
  \/ ComputeCrc
  \/ ReceivePacket

SpecGenerator == InitGenerator /\ [][NextGenerator]_vars

----------------------------------------------------------------------------
(* Claims on the reassembler (SpecFeed)                                    *)

\* C1: for every complete well-formed message and every partition of it into
\* fragments, feeding the fragments from an empty buffer emits exactly one message,
\* equal to the message emitted when the text is fed as a single fragment.
C1_PartitionIndependent ==
  (feedText \in WellFormed /\ pending = "") =>
     /\ Len(emitted) = 1
     /\ emitted = monitorCallback("", feedText).messages

\* C3: after every completed invocation of the fragment handler the stored buffer
\* holds at most 10,000 characters, whatever the fragments were.
C3_BufferCapped == Len(dataBufferRef) <= 10000

\* C3, the case: the cap was exceeded and reset, and the buffer is filling again
C3_Witness ==
  /\ lastOp.op = "fragment"
  /\ overflows >= 1
  /\ Len(dataBufferRef) >= 4000

\* C4 as stated: 41,000 characters of garbage, whatever the characters and however
\* they are cut into fragments, leave the buffer empty and report the overflow
\* exactly once.
C4_GarbageClearsOnce ==
  (feedText \in Garbage /\ pending = "") =>
     /\ dataBufferRef = ""
     /\ overflows = 1

\* C4 as the code has it: 41,000 characters of garbage whose first 20 characters are
\* not repeated as its next 20, handled as ONE fragment on an empty buffer, leave
\* the buffer empty and report the overflow exactly once.
C4_WholeGarbageClearsOnce ==
  ( /\ feedText \in Garbage
    /\ SubSeq(feedText, 1, 20) # SubSeq(feedText, 21, 40)
    /\ lastOp.op = "fragment"
    /\ lastOp.whole ) =>
     /\ dataBufferRef = ""
     /\ overflows = 1

\* C4, the case: such a text has been handled as one fragment
C4_Witness ==
  /\ feedText = GarbageMixed
  /\ lastOp.op = "fragment"
  /\ lastOp.whole
  /\ pending = ""
  /\ overflows = 1

----------------------------------------------------------------------------
(* Claims on the application (Spec)                                        *)

\* C5: after every disconnect, by disconnectDevice or by the onDisconnected
\* callback, the decode buffer is empty.
C5_BufferEmptyAfterDisconnect ==
  ( \/ lastOp.op = "disconnectDevice"
    \/ (lastOp.op = "onDisconnected" /\ lastOp.called) ) =>
     dataBufferRef = ""

----------------------------------------------------------------------------
(* Claims on the decode pipeline (SpecMerge)                               *)

isPrefix(a, b) == Len(a) <= Len(b) /\ SubSeq(b, 1, Len(a)) = a

\* C2: every message extracted by the fragment handler is handed to the decoder
\* exactly once and in extraction order: what was decoded is always a prefix of what
\* was extracted, and all of it once the data effect has run on the current
\* receivedData.
C2_HandedOnceInOrder ==
  /\ isPrefix(decoded, emitted)
  /\ (dataDeps[1] = receivedData => decoded = emitted)

\* the history of a patient in a registry
historyOf(patients, key) ==
  IF key \in DOMAIN patients /\ patients[key].data.defined
  THEN patients[key].data.data ELSE <<>>

\* the data effect has just applied a reading
applied == lastOp.op = "effects" /\ lastOp.applied

appliedKey == patientKeyOf(lastOp.reading.patientId)
incoming == lastOp.reading.data
historyBefore == historyOf(lastOp.before, appliedKey)
historyAfter == historyOf(blePatients, appliedKey)
latestBefore == historyBefore[Len(historyBefore)]
latestAfter == historyAfter[Len(historyAfter)]

\* the reading was merged into the most recent one: the earlier readings are
\* untouched and the number of readings is the same
merged ==
  /\ applied
  /\ historyBefore # <<>>
  /\ Len(historyAfter) = Len(historyBefore)
  /\ SubSeq(historyAfter, 1, Len(historyAfter) - 1)
       = SubSeq(historyBefore, 1, Len(historyBefore) - 1)

\* C6: every reading decoded from a Live packet is appended as a new entry at the
\* end of the history (the length grows by one before truncation to 6), also when
\* its latitude or longitude decodes to 0.
C6_LiveAppends ==
  (applied /\ charAt(lastOp.message, 0) = "L") =>
     /\ Len(historyAfter) = MinOf(Len(historyBefore) + 1, 6)
     /\ latestAfter = incoming

keepsNonZero(existing, new, result) == result = IF new # 0 THEN new ELSE existing

\* C7: when a Total-sourced reading is merged into the most recent reading, each
\* numeric field of the result is the incoming value if that is non-zero and the
\* existing value otherwise.
C7_NumericMerge ==
  (merged /\ charAt(lastOp.message, 0) = "T") =>
     /\ keepsNonZero(latestBefore.gps.lat, incoming.gps.lat, latestAfter.gps.lat)
     /\ keepsNonZero(latestBefore.gps.lon, incoming.gps.lon, latestAfter.gps.lon)
     /\ keepsNonZero(latestBefore.gps.speedKmh, incoming.gps.speedKmh,
                     latestAfter.gps.speedKmh)
     /\ keepsNonZero(latestBefore.gps.distanceTotalM, incoming.gps.distanceTotalM,
                     latestAfter.gps.distanceTotalM)
     /\ keepsNonZero(latestBefore.heart.bpm, incoming.heart.bpm, latestAfter.heart.bpm)
     /\ keepsNonZero(latestBefore.heart.rrMs, incoming.heart.rrMs,
                     latestAfter.heart.rrMs)
     /\ keepsNonZero(latestBefore.heart.maxBpmSession, incoming.heart.maxBpmSession,
                     latestAfter.heart.maxBpmSession)
     /\ keepsNonZero(latestBefore.movement.metabolicPowerWkg,
                     incoming.movement.metabolicPowerWkg,
                     latestAfter.movement.metabolicPowerWkg)
     /\ keepsNonZero(latestBefore.movement.stepBalancePercent,
                     incoming.movement.stepBalancePercent,
                     latestAfter.movement.stepBalancePercent)
     /\ keepsNonZero(latestBefore.temperature.skinC, incoming.temperature.skinC,
                     latestAfter.temperature.skinC)

\* C7, the case: a Total reading with bpm 0 and all counters 0 merged into a
\* reading with bpm 86 that already carries a session distance
C7_Witness ==
  /\ merged
  /\ lastOp.message = TotalZero
  /\ latestBefore.heart.bpm = 86
  /\ latestBefore.gps.distanceTotalM = 1500
  /\ latestAfter.heart.bpm = 86
  /\ latestAfter.gps.distanceTotalM = 1500

\* C8: when a reading is merged into the most recent reading, activityZone and
\* stepBalanceSide take the incoming value only if it is non-empty and not the
\* placeholder ('Z1', 'left'); otherwise the existing value is kept.
C8_StringMerge ==
  merged =>
     /\ latestAfter.movement.activityZone =
          IF incoming.movement.activityZone \notin {"", "Z1"}
          THEN incoming.movement.activityZone
          ELSE latestBefore.movement.activityZone
     /\ latestAfter.movement.stepBalanceSide =
          IF incoming.movement.stepBalanceSide \notin {"", "left"}
          THEN incoming.movement.stepBalanceSide
          ELSE latestBefore.movement.stepBalanceSide

\* the data effect has just appended a reading: the patient had no readings, or
\* the reading carries a non-zero latitude and longitude (lines 246-251)
appended ==
  /\ applied
  /\ \/ historyBefore = <<>>
     \/ incoming.gps.lat # 0 /\ incoming.gps.lon # 0

C10_StatusLeavesRegistry ==
  (lastOp.op = "effects" /\ charAt(lastOp.message, 0) = "S") =>
     /\ lastOp.parsed
     /\ parsePacket(lastOp.message).type = "S"
     /\ blePatients = lastOp.before

\* C10, the case: a Status message handled while a patient has five readings
C10_Witness ==
  /\ lastOp.op = "effects"
  /\ lastOp.message = StatusA
  /\ lastOp.parsed
  /\ Len(historyOf(blePatients, "ble-p1")) = 5

----------------------------------------------------------------------------
(* Registry and connection                                                 *)

\* C11: once the connection effect has run after connectedDevice became null, the
\* registry is empty: no patient and no reading of the previous connection remains.
C11_ClearedOnDisconnect ==
  (connectedDevice = "null" /\ connDeps[1] = "null") => blePatients = <<>>

\* C11, the case: the effects that follow a disconnect empty a registry that held
\* a patient with readings
C11_Witness ==
  /\ lastOp.op = "effects"
  /\ lastOp.wasConnected
  /\ connectedDevice = "null"
  /\ \E key \in DOMAIN lastOp.before : historyOf(lastOp.before, key) # <<>>
  /\ blePatients = <<>>

\* the patient keys of the messages decoded since the connection was established
decodedKeys ==
  { patientKeyOf(parseBLEData(decoded[i], 0, 0).patientId) :
      i \in { j \in 1..Len(decoded) : parseBLEData(decoded[j], 0, 0).ok } }

\* C12: every patient of the registry has had a message with its identifier decoded
\* since the connection was established; connecting alone creates no patient.
C12_PatientsOnlyFromMessages ==
  \A key \in DOMAIN blePatients : key \in decodedKeys

\* C13: every patient of the registry has isConnected = true, and the effects add
\* a patient only while connectedDevice is a device.
C13_ConnectedFromCreation ==
  /\ \A key \in DOMAIN blePatients : blePatients[key].isConnected
  /\ (lastOp.op = "effects" /\ DOMAIN blePatients \ DOMAIN lastOp.before # {})
        => connectedDevice # "null"

\* C13, the case: the data effect has created a patient from its first reading
C13_Witness ==
  /\ applied
  /\ appliedKey \notin DOMAIN lastOp.before
  /\ historyAfter = <<incoming>>
  /\ blePatients[appliedKey].isConnected

\* C14: the effects clear the registry exactly when connectedDevice went from a
\* device to null since the connection effect last ran: once per disconnect, not
\* on a mode change and not while already disconnected.
C14_ClearOncePerDisconnect ==
  lastOp.op = "effects" =>
     (lastOp.cleared <=> (lastOp.wasConnected /\ connectedDevice = "null"))

----------------------------------------------------------------------------
(* Decoding                                                                *)

\* C18: a Live packet that ends in one 'D' and arrives in fragments without a line
\* end is handed over as exactly one message, the whole packet with its
\* terminator, nothing is left in the buffer, and the message decodes as a Live
\* packet of pod '01' (the documented example: with heart rate 85).
C18_LiveSingleDReassembled ==
  (feedText \in LiveSingleD /\ pending = "") =>
     /\ emitted = <<feedText>>
     /\ dataBufferRef = ""
     /\ parsePacket(feedText).type = "L"
     /\ parsePacket(feedText).podId = "01"
     /\ feedText = LiveExample => parsePacket(feedText).heartRate = 85

\* the effects have run on the current state
rendered ==
  /\ dataDeps = <<receivedData, connectedDevice, isProductionMode>>
  /\ connDeps = <<connectedDevice, isProductionMode>>

\* C15: a text that does not decode leaves the registry as it was, and the line
\* that follows it in the stream is handed over, decoded and applied: in the end
\* the buffer is empty and the registry is the initial one with the reading of
\* that line applied.
C15_DecodeFailureIsLocal ==
  \A bad \in BadMessages, good \in GoodLines :
     (feedText = bad \o good /\ rendered) =>
        /\ pending = good => \E n \in RecoverSeeds : blePatients = seededPatients(n)
        /\ pending = "" =>
             /\ dataBufferRef = ""
             /\ emitted # <<>> /\ emitted[Len(emitted)] = trim(good)
             /\ decoded # <<>> /\ decoded[Len(decoded)] = trim(good)
             /\ \E n \in RecoverSeeds, random \in RandomMilli :
                  LET reading == parseBLEData(trim(good), now, random)
                  IN  blePatients = updatePatients(seededPatients(n), reading.patientId,
                                                   reading.data)

\* C16: a message that starts with '{' decodes only if its text is JSON and it
\* carries an identifier in patientId or patient_id; without an identifier, or
\* with a text that does not parse, no reading is produced.
C16_JsonNeedsIdentifier ==
  lastOp.op = "decode" =>
     /\ lastOp.reading.ok =>
          /\ lastOp.case.damage = "none"
          /\ JsonIdOf[lastOp.case.id] # ""
          /\ lastOp.reading.patientId = JsonIdOf[lastOp.case.id]
     /\ (lastOp.case.damage # "none" \/ lastOp.case.id = "none") => ~lastOp.reading.ok

\* C16, the case: a message without identifier has just been refused
C16_Witness ==
  /\ lastOp.op = "decode"
  /\ lastOp.case = [id |-> "none", fields |-> "bpm", damage |-> "none"]
  /\ ~lastOp.reading.ok

\* C16, the case: a message with a patient_id has just been decoded
C16_WitnessDecoded ==
  /\ lastOp.op = "decode"
  /\ lastOp.case = [id |-> "under", fields |-> "bpm", damage |-> "none"]
  /\ lastOp.reading.ok

\* the fields of a reading by their path
fieldsOf(data) ==
  "gps.lat" :> data.gps.lat @@ "gps.lon" :> data.gps.lon
  @@ "gps.speedKmh" :> data.gps.speedKmh
  @@ "gps.distanceTotalM" :> data.gps.distanceTotalM
  @@ "heart.bpm" :> data.heart.bpm @@ "heart.rrMs" :> data.heart.rrMs
  @@ "heart.maxBpmSession" :> data.heart.maxBpmSession
  @@ "movement.metabolicPowerWkg" :> data.movement.metabolicPowerWkg
  @@ "movement.activityZone" :> data.movement.activityZone
  @@ "movement.stepBalanceSide" :> data.movement.stepBalanceSide
  @@ "movement.stepBalancePercent" :> data.movement.stepBalancePercent
  @@ "temperature.skinC" :> data.temperature.skinC

\* the documented default of a field: 'Z1', 'left', or 0
documentedDefault(field) ==
  CASE field = "movement.activityZone" -> "Z1"
    [] field = "movement.stepBalanceSide" -> "left"
    [] OTHER -> 0

\* C17: a decoded JSON message has every field that is present at its given value
\* and every missing field at 0 or at its default string; the message
\* {"patientId":"p2","heart":{"bpm":77}} gives heart.bpm = 77 and defaults.
C17_JsonDefaults ==
  (lastOp.op = "decode" /\ lastOp.reading.ok) =>
     LET given == JsonFieldParts[lastOp.case.fields].given
         fields == fieldsOf(lastOp.reading.data)
     IN  \A field \in DOMAIN fields :
            fields[field] = IF field \in DOMAIN given THEN given[field]
                            ELSE documentedDefault(field)

\* C19: parsePacket on a generated Live packet gives a Live packet with the pod
\* id, the heart rate and the metabolic power (in tenths) that were generated.
C19_LiveRoundTrip ==
  lastOp.op = "generate" =>
     /\ lastOp.parsed.type = "L"
     /\ lastOp.parsed.podId = lastOp.podId
     /\ lastOp.parsed.heartRate = lastOp.bpm
     /\ lastOp.parsed.metabolicPower = lastOp.power10

----------------------------------------------------------------------------
(* CRC-8                                                                   *)

\* the bits of the bytes of a text, most significant bit first
messageBits(data) ==
  [n \in 1..(8 * Len(data)) |->
     (charCode(ch(data, ((n - 1) \div 8) + 1)) \div (2 ^ (7 - ((n - 1) % 8)))) % 2]

\* the division of the message times x^8 by x^8 + x^2 + x + 1 over GF(2), one
\* message bit at a time from the n-th on; rem is the remainder so far (never
\* negative)
RECURSIVE remainderFrom(_, _, _)
remainderFrom(bitsOf, n, rem) ==
  IF n > Len(bitsOf) \/ rem < 0 THEN rem
  ELSE LET low == (rem * 2) % 256
       IN  remainderFrom(bitsOf, n + 1,
                         IF rem \div 128 # bitsOf[n] THEN low + 7 - 2 * (low % 8)
                         ELSE low)

\* the reference CRC-8: polynomial 0x07, initial value 0, most significant bit
\* first
referenceCRC8(data) == remainderFrom(messageBits(data), 1, 0)

\* C20: calculateCRC8 gives, for every text, the reference CRC-8 (polynomial 0x07,
\* initial value 0, most significant bit first, 8 bits wide): a value in 0..255
\* that depends on the text alone, 0xF4 for the text "123456789".
C20_CrcMatchesReference ==
  lastOp.op = "crc" =>
     /\ lastOp.crc = referenceCRC8(lastOp.data)
     /\ lastOp.crc \in 0..255
     /\ lastOp.crc = calculateCRC8(feedText)
     /\ lastOp.data = "123456789" => lastOp.crc = 244

\* C20, the case: the CRC-8 of the reference text has been computed
C20_Witness ==
  /\ lastOp.op = "crc"
  /\ lastOp.data = "123456789"
  /\ lastOp.crc = 244

----------------------------------------------------------------------------
(* The peripheral's connection callbacks and loop()                        *)

MaxConnections == 3

appVars == <<dataBufferRef, receivedData, connectedDevice, linkUp, monitors,
             isProductionMode, blePatients, dataDeps, connDeps, now, delivered,
             toggles, pending, feedText, emitted, decoded, overflows, connectCall,
             sending, lastOp>>

\* Lines 457-461, on the stack's task: a client connects to the advertising
\* peripheral, which ends the advertising
onConnect ==
  /\ server.advertising /\ ~server.linked
  /\ server.connections < MaxConnections
  /\ server' = [server EXCEPT !.linked = TRUE, !.advertising = FALSE,
                              !.deviceConnected = TRUE,
                              !.connections = @ + 1]
  /\ UNCHANGED appVars

\* Lines 463-467, on the stack's task: the client's connection ends
onDisconnect ==
  /\ server.linked
  /\ server' = [server EXCEPT !.linked = FALSE, !.deviceConnected = FALSE]
  /\ UNCHANGED appVars

\* Lines 525-574: the outcomes of the statement of loop() at s.pc.  In the
\* sending pass a Live and a Total packet go out when their interval has passed,
\* a Status packet when its interval has passed or none was sent yet.
loopStatement(s) ==
  CASE s.pc = "restartCheck" ->
         {[s EXCEPT !.pc = IF ~s.deviceConnected /\ s.oldDeviceConnected
                           THEN "startAdvertising" ELSE "connectCheck"]}
    [] s.pc = "startAdvertising" ->
         {[s EXCEPT !.advertising = TRUE, !.pc = "restartAssign"]}
    [] s.pc = "restartAssign" ->
         {[s EXCEPT !.oldDeviceConnected = s.deviceConnected, !.pc = "connectCheck"]}
    [] s.pc = "connectCheck" ->
         {[s EXCEPT !.pc = IF s.deviceConnected /\ ~s.oldDeviceConnected
                           THEN "connectAssign" ELSE "send"]}
    [] s.pc = "connectAssign" ->
         {[s EXCEPT !.oldDeviceConnected = s.deviceConnected, !.pc = "send"]}
    [] s.pc = "send" ->
         IF s.deviceConnected
         THEN {[s EXCEPT !.sent = due, !.pc = "restartCheck",
                         !.statusPending = FALSE] :
                 due \in {d \in SUBSET {"L", "T", "S"} : s.statusPending => "S" \in d}}
         ELSE {[s EXCEPT !.pc = "restartCheck"]}

\* one statement of loop(), on the sketch's task
loop ==
  /\ \E s \in loopStatement(server) : server' = s
  /\ UNCHANGED appVars

InitServer ==
  /\ InitCommon
  /\ feedText = ""
  /\ pending = ""

NextServer ==
  \/ onConnect
  \/ onDisconnect
  \/ loop

\* loop() is called again and again
SpecServer == InitServer /\ [][NextServer]_vars /\ WF_vars(loop)

----------------------------------------------------------------------------
(* Claims C21-C30                                                          *)

\* the characters of a received packet that precede its two checksum digits
beforeChecksum(packet) == SubSeq(packet, 1, Len(packet) - 3)

\* C21: the result of every successful decode of an ASCII packet carries the
\* CRC-8 that calculateCRC8 gives for the characters before the checksum field.
C21_ComputedCrcExposed ==
  (lastOp.op = "receive" /\ lastOp.parsed.type # "null") =>
     lastOp.parsed.crc = hex2(calculateCRC8(beforeChecksum(lastOp.packet)))

\* C22: applying a reading adds or changes the record under the key of its
\* identifier and no other: the registry has the keys it had and that key, and
\* every other record, its history included, is what it was.
C22_OnlyKeyedPatientChanges ==
  applied =>
    /\ DOMAIN blePatients = DOMAIN lastOp.before \cup {appliedKey}
    /\ \A key \in DOMAIN lastOp.before \ {appliedKey} :
         blePatients[key] = lastOp.before[key]
    /\ historyAfter # <<>>

\* a reading is applied to a patient that has a history while another patient
\* with a history is in the registry
C22_Witness ==
  /\ applied
  /\ historyBefore # <<>>
  /\ blePatients[appliedKey] # lastOp.before[appliedKey]
  /\ \E key \in DOMAIN lastOp.before \ {appliedKey} :
       historyOf(lastOp.before, key) # <<>>

\* C23: whenever a client has disconnected, the peripheral advertises again at
\* some later time.
C23_AdvertisingRestarts ==
  (server.connections > 0 /\ ~server.linked) ~> server.advertising

\* C24: when the callback returns, the stored buffer holds no newline.
C24_NoNewlineLeft ==
  lastOp.op = "fragment" => ~includes(dataBufferRef, "\n")

\* the fragment a step of the feed hands to the callback, the buffer the callback
\* works on, and the messages the step hands over
fragment == SubSeq(pending, 1, Len(pending) - Len(pending'))
joinedBuffer == dataBufferRef \o fragment
handedOver == SubSeq(emitted', Len(emitted) + 1, Len(emitted'))

\* C25: the overflow is reported only for a buffer of more than 10,000
\* characters that holds no newline, and a buffer of more than 10,000
\* characters that holds a complete line hands a message over.
C25_OverflowOnlyWithoutMessage ==
  [][ /\ overflows' > overflows =>
           Len(joinedBuffer) > MaxBufferLength /\ ~includes(joinedBuffer, "\n")
      /\ (Len(joinedBuffer) > MaxBufferLength /\ includes(joinedBuffer, "\n")) =>
           handedOver # <<>> ]_vars

\* the text ends in 'DD'
endsWithDD(s) == Len(s) >= 2 /\ SubSeq(s, Len(s) - 1, Len(s)) = "DD"

\* C26: the callback, working on a buffer that starts with 'L' and holds no
\* newline, hands the whole buffer over as one message when the buffer ends in
\* 'DD', and hands nothing over when it does not.
C26_LiveTerminatorAtEnd ==
  [][ (startsWith(joinedBuffer, "L") /\ ~includes(joinedBuffer, "\n")) =>
        handedOver = IF endsWithDD(joinedBuffer) THEN <<joinedBuffer>> ELSE <<>> ]_vars

\* C27: of a text that is one Total or Status packet without line end, no
\* message handed over is a strict prefix of the packet.
C27_NoPacketPrefix ==
  ((startsWith(feedText, "T") \/ startsWith(feedText, "S")) /\ ~includes(feedText, "\n")) =>
     \A i \in 1..Len(emitted) :
        ~(isPrefix(emitted[i], feedText) /\ emitted[i] # feedText)

\* C28: no message handed over holds a newline.
C28_NoNewlineInMessage ==
  \A i \in 1..Len(emitted) : ~includes(emitted[i], "\n")

\* the 0-based index of the brace that closes the object opened at 0-based
\* index start of s, -1 if the object is not closed: the first position at
\* which as many '}' as '{' have been read from start on
closingBrace(s, start) ==
  LET count(c, to) == Cardinality({k \in (start + 1)..to : ch(s, k) = c})
      closed == {e \in (start + 1)..Len(s) : count("{", e) = count("}", e)}
  IN  IF closed = {} THEN -1
      ELSE (CHOOSE e \in closed : \A f \in closed : e <= f) - 1

\* C29: the callback, working on a buffer without newline in which the object
\* opened by the first '{' is closed, hands over that object, from the '{' to
\* its closing '}', as its first message.
C29_BalancedJsonExtracted ==
  [][ LET start == indexOf(joinedBuffer, "{")
          end   == closingBrace(joinedBuffer, start)
      IN  (~includes(joinedBuffer, "\n") /\ start # -1 /\ end # -1) =>
             /\ handedOver # <<>>
             /\ handedOver[1] = substring(joinedBuffer, start, end + 1) ]_vars

\* the first 20 characters of the text are repeated from offset 20 on
repeatsHead(s) ==
  /\ Len(s) >= 2 * DuplicateChunkLength
  /\ SubSeq(s, 1, DuplicateChunkLength)
       = SubSeq(s, DuplicateChunkLength + 1, 2 * DuplicateChunkLength)

\* C30: of a text that holds no newline, no 'D' and no brace, so that nothing is
\* extracted, the callback stores the first 20 characters of the buffer when
\* they repeat from offset 20 on, and the whole buffer when they do not.
C30_DuplicateGuard ==
  [][ (\A c \in {"\n", "D", "{", "}"} : ~includes(feedText, c)) =>
        dataBufferRef' = IF repeatsHead(joinedBuffer)
                         THEN SubSeq(joinedBuffer, 1, DuplicateChunkLength)
                         ELSE joinedBuffer ]_vars

----------------------------------------------------------------------------
(* connectToDevice and disconnectDevice (SpecConnect)                      *)

MaxCalls == 2

\* Lines 937-945, connectToDevice(deviceId) is called: without BLE the function
\* returns at line 941, otherwise setIsConnecting(true) and the await of line 952.
ConnectStart ==
  /\ connectCall.pc = "idle"
  /\ connectCall.calls < MaxCalls
  /\ \E available \in BOOLEAN :
       /\ connectCall' =
            IF available
            THEN [connectCall EXCEPT !.isConnecting = TRUE, !.pc = "connect",
                                     !.monitored = FALSE, !.outcome = "running",
                                     !.calls = @ + 1]
            ELSE [connectCall EXCEPT !.outcome = "unavailable", !.calls = @ + 1]
       /\ lastOp' = [op |-> "connectStart", available |-> available]
  /\ UNCHANGED <<server, sending, dataBufferRef, receivedData, connectedDevice, linkUp,
                 monitors, isProductionMode, blePatients, dataDeps, connDeps, now,
                 delivered, toggles, pending, feedText, emitted, decoded, overflows>>

\* The await the invocation waits for settles and connectToDevice runs on to its
\* next await or to its return; line 953 sets connectedDevice, line 1081 adds a
\* subscription.
ConnectStep ==
  /\ connectCall.pc # "idle"
  /\ \E result \in connectResults(connectCall.pc) :
       /\ (connectCall.pc = "monitor" /\ result = "ok") => monitors < MaxMonitors
       /\ connectCall' = connectToDeviceNext(connectCall, result)
       /\ connectedDevice' = IF connectCall.pc = "connect" /\ result = "ok"
                             THEN Device ELSE connectedDevice
       /\ linkUp' = (linkUp \/ (connectCall.pc = "connect" /\ result = "ok"))
       /\ monitors' = IF connectCall.pc = "monitor" /\ result = "ok"
                      THEN monitors + 1 ELSE monitors
       /\ lastOp' = [op |-> "connectStep", at |-> connectCall.pc, result |-> result]
  /\ UNCHANGED <<server, sending, dataBufferRef, receivedData, isProductionMode,
                 blePatients, dataDeps, connDeps, now, delivered, toggles, pending,
                 feedText, emitted, decoded, overflows>>

InitConnect ==
  /\ InitCommon
  /\ feedText = ""
  /\ pending = ""

NextConnect ==
  \/ ConnectStart
  \/ ConnectStep
  \/ DisconnectDevice

\* every await of connectToDevice settles
SpecConnect == InitConnect /\ [][NextConnect]_vars /\ WF_vars(ConnectStep)

----------------------------------------------------------------------------
(* sendPacket (SpecSend)                                                   *)

SendAlphabet == "0123456789ABCDEFGHIJKLMNOPQRSTUVWXYZabcdefghijklmnopqrstuvwxyz"

\* packets of every length from 0 to 62, and the packets of the generator
SentPackets ==
  {SubSeq(SendAlphabet, 1, n) : n \in 0..Len(SendAlphabet)} \cup {LiveA, TotalA, StatusA}

\* Lines 438-443, sendPacket(packet) is called: the newline is added and the for
\* statement initialised.
SendPacket ==
  /\ sending.pc = "idle"
  /\ \E packet \in SentPackets :
       sending' = [pc |-> "loop", argument |-> packet, packet |-> packet \o "\n",
                   i |-> 0, notified |-> <<>>]
  /\ lastOp' = [op |-> "sendPacket"]
  /\ UNCHANGED <<server, connectCall, dataBufferRef, receivedData, connectedDevice,
                 linkUp, monitors, isProductionMode, blePatients, dataDeps, connDeps, now,
                 delivered, toggles, pending, feedText, emitted, decoded, overflows>>

\* Lines 445-453, one pass of the for statement
SendIteration ==
  /\ sending.pc = "loop"
  /\ sending' = sendPacketNext(sending)
  /\ lastOp' = [op |-> "sendIteration"]
  /\ UNCHANGED <<server, connectCall, dataBufferRef, receivedData, connectedDevice,
                 linkUp, monitors, isProductionMode, blePatients, dataDeps, connDeps, now,
                 delivered, toggles, pending, feedText, emitted, decoded, overflows>>

InitSend ==
  /\ InitCommon
  /\ feedText = ""
  /\ pending = ""

NextSend ==
  \/ SendPacket
  \/ SendIteration

\* the sketch's task runs on: notify() and delay(10) return
SpecSend == InitSend /\ [][NextSend]_vars /\ WF_vars(SendIteration)

----------------------------------------------------------------------------
(* Claims C31-C39                                                          *)

\* C31: parsePacket returns null for a Live packet exactly when the packet has
\* fewer than 70 characters or none of the four characters after the
\* metabolic-power field is 'D'.  (In a packet whose latitude and longitude end
\* in a direction letter the field ends at 0-based index 70.)
C31_LiveRejection ==
  (lastOp.op \in {"generate", "receive"} /\ startsWith(lastOp.packet, "L")) =>
     (lastOp.parsed.type = "null"
        <=> \/ Len(lastOp.packet) < 70
            \/ \A i \in 70..73 : charAt(lastOp.packet, i) # "D")

\* the data effect applies the reading of the message
appliesReading(message) ==
  LET accepted(reading) == reading.ok /\ reading.patientId # ""
  IN  accepted(parseBLEData(message, 0, 0))

occurrences(messages, message) ==
  Cardinality({i \in DOMAIN messages : messages[i] = message})

\* C32: a message whose reading is applied has been passed to the decoder, since
\* the connection was made, no more often than the callback handed it over.
C32_AppliedAtMostOnce ==
  \A i \in DOMAIN decoded :
     appliesReading(decoded[i]) =>
        occurrences(decoded, decoded[i]) <= occurrences(emitted, decoded[i])

\* C33: once disconnectDevice has cleared the state, no callback of the previous
\* connection changes the decode buffer or hands a message over (the buffer stays
\* empty while no device is connected), and at most one RX monitor feeds the buffer.
C33_NoCallbackAfterDisconnect ==
  /\ [][(connectedDevice = "null" /\ connectedDevice' = "null" /\ dataBufferRef = "")
         => (dataBufferRef' = "" /\ emitted' = emitted)]_vars
  /\ [](monitors <= 1)

\* C34: a reading with latitude 0 or longitude 0, as every reading of a Total
\* packet is, leaves the length of a non-empty history as it was, and on a patient
\* without readings it becomes the only reading of the history.
C34_ZeroCoordinatesKeepLength ==
  /\ (applied /\ charAt(lastOp.message, 0) = "T") =>
        (incoming.gps.lat = 0 /\ incoming.gps.lon = 0)
  /\ (applied /\ (incoming.gps.lat = 0 \/ incoming.gps.lon = 0)) =>
        IF historyBefore # <<>>
        THEN Len(historyAfter) = Len(historyBefore)
        ELSE historyAfter = <<incoming>>

\* C34, the case: a Total reading applied to a history of five readings
C34_Witness ==
  /\ applied
  /\ lastOp.message = TotalZ6
  /\ incoming.gps.lat = 0
  /\ Len(historyBefore) = 5
  /\ Len(historyAfter) = 5

addedAtEnd == historyAfter = sliceLast(Append(historyBefore, incoming), HistoryLimit)

\* C36 as stated: a reading is appended iff its latitude and its longitude are both
\* non-zero, whatever message it was decoded from.
C36_AppendIffCoordinates ==
  applied => (addedAtEnd <=> (incoming.gps.lat # 0 /\ incoming.gps.lon # 0))

\* C36: for a patient that has readings, a reading is appended iff its latitude
\* and its longitude are both non-zero, whatever message it was decoded from;
\* otherwise it is merged.
C36_AppendIffCoordinatesOnHistory ==
  (applied /\ historyBefore # <<>>) =>
     /\ addedAtEnd <=> (incoming.gps.lat # 0 /\ incoming.gps.lon # 0)
     /\ addedAtEnd \/ merged

\* C36, the case: a Live reading without coordinates is merged
C36_Witness ==
  /\ applied
  /\ lastOp.message = LiveZero
  /\ Len(historyBefore) = 5
  /\ ~addedAtEnd
  /\ merged

\* the last step ended an invocation of connectToDevice that had set isConnecting
callEnded == lastOp.op = "connectStep" /\ connectCall.pc = "idle"

\* C37: when connectToDevice finishes, connectedDevice is a device only if the
\* service and both characteristics were found and the RX monitor was set up; on
\* every failure path connectedDevice is null.
C37_ConnectedOnlyWhenMonitored ==
  callEnded =>
     /\ connectedDevice # "null" => (connectCall.outcome = "ok" /\ connectCall.monitored)
     /\ connectCall.outcome # "ok" => connectedDevice = "null"

RECURSIVE joined(_)
joined(chunks) ==
  IF chunks = <<>> THEN "" ELSE chunks[1] \o joined(Tail(chunks))

\* C39: sendPacket terminates for every packet length, and the chunks it notifies
\* have at most 20 characters (none is empty) and, joined in order, are the packet
\* followed by a newline.
C39_ChunksCarryPacket ==
  /\ [](\A k \in DOMAIN sending.notified : Len(sending.notified[k]) \in 1..20)
  /\ [](sending.pc = "done" => joined(sending.notified) = sending.argument \o "\n")
  /\ (sending.pc = "loop") ~> (sending.pc = "done")

\* C39, the case: a Live packet of 73 characters went out as chunks of 20, 20, 20
\* and 14 characters, the last ending with the newline
C39_Witness ==
  /\ sending.pc = "done"
  /\ sending.argument = LiveA
  /\ Len(sending.notified) = 4
  /\ Len(sending.notified[4]) = 14
  /\ joined(sending.notified) = LiveA \o "\n"

====
